---- MODULE Spec2Model ----
(***************************************************************************)
(* Verification model of the bustub storage core: the B+ tree index        *)
(* (storage/index), its leaf and internal pages (storage/page) and the     *)
(* buffer pool manager with its LRU-K replacer (buffer).                   *)
(*                                                                         *)
(* Array slots are 0-based in the C++ code and 1-based here: slot i of the *)
(* code is element i+1 of the sequence array_, and size_ is Len(array_).   *)
(***************************************************************************)
EXTENDS Integers, Sequences, FiniteSets, TLC

\* ------------------------------------------------------------------------
\* Bounds of the model
\* ------------------------------------------------------------------------
MaxKey == 5
MaxVal == 2
MaxPages == 7
MaxOps == 6
NumThreads == 2
MaxCalls == 4
MaxPoolSize == 2
MaxPoolPage == 3
MaxPoolOps == 6
MaxData == 1
MaxFrames == 2
MaxLruOps == 6
MaxHashKey == 6
MaxDepth == 3
MaxBucketSize == 2
MaxHashOps == 4
MaxIterKeys == 3
MaxClientPins == 1

Keys == 1..MaxKey
Values == 1..MaxVal
PageIds == 0..MaxPages
\* An operation may start with MaxPages pages allocated; it allocates at most
\* one page per level plus a root, and is discarded if it passes MaxPages.
PageSlots == 0..(MaxPages + 4)
LeafMaxSizes == {2, 3, 4}
InternalMaxSizes == {2, 3}
PoolSizes == 1..MaxPoolSize
ReplacerKs == {1, 2}
PoolPageIds == 0..MaxPoolPage
DataValues == 0..MaxData
\* The two sources of BufferPoolManagerInstance: with a latch per frame
\* (buffer_pool_manager_instance.cpp) and with one mutex (part_006).
PoolSources == {"buffer_pool_manager_instance.cpp", "part_006"}
ReplacerFrames == 0..(MaxFrames - 1)
ReplacerSources == {"part_005", "part_004"}
ReplacerArgs == 0..MaxFrames
NegativeArgs == {-1}
\* Keys of the hash table: ints below 2^MaxDepth.
HashKeys == 0..MaxHashKey
BucketSizes == 1..MaxBucketSize
\* The two sources of ExtendibleHashTable in part_003: with the shared mutex
\* global_latch_ (lines 14-201) and with the mutex latch_ (lines 216-416).
HashSources == {"global_latch_", "latch_"}

\* ------------------------------------------------------------------------
\* Program constants
\* ------------------------------------------------------------------------
INVALID_PAGE_ID == -1
HEADER_PAGE_ID == 0

VARIABLES
  pages,               \* page id -> B+ tree page image held by the buffer pool
  root_page_id_,       \* BPlusTree::root_page_id_
  tree_next_page_id_,  \* next page id the buffer pool hands to the tree
  pin,                 \* page id -> pin count of the page
  ub,                  \* TRUE once an operation has interpreted a zeroed page
  leaf_max_size_,      \* BPlusTree::leaf_max_size_
  internal_max_size_,  \* BPlusTree::internal_max_size_
  kv,                  \* history: key -> value inserted and not removed (0: none)
  last,                \* history: the last call, its result, and whether its key
                       \* was among the keys inserted and not removed
  nops,                \* history: number of calls made
  pc,                  \* thread -> position in the call it is making
  call,                \* thread -> the call it is making or made last
  path,                \* thread -> pages its call holds pinned, leaf first
  root_page_id_guard_, \* BPlusTree::root_page_id_guard_ (shared mutex)
  global_latch_,       \* BPlusTree::global_latch_ (shared mutex)
  ret,                 \* thread -> result of its last completed call
  in_write,            \* history: thread -> its Insert or Remove has made its
                       \* first modification and not yet its last
  overlap,             \* history: a GetValue or Begin has read root_page_id_ or
                       \* a page while in_write held for another thread
  only_inserts,        \* history: no Remove has been called
  pool_source,         \* which source of BufferPoolManagerInstance runs
  pool_size_,          \* BufferPoolManagerInstance::pool_size_
  pages_,              \* frame id -> Page (page_id_, pin_count_, is_dirty_, data_)
  free_list_,          \* BufferPoolManagerInstance::free_list_
  page_table_,         \* the directory, as the set of its <<page id, frame id>>
  next_page_id_,       \* BufferPoolManagerInstance::next_page_id_
  replacer_,           \* LRUKReplacer: k_, history_, allocated_, evictable_,
                       \* curr_size_, current_timestamp_
  disk,                \* page id -> bytes the disk manager holds for the page
  fault,               \* "none", or what went wrong inside a call
  pool_last,           \* history: the last buffer pool call and its result
  null_seen,           \* history: a NewPage has returned nullptr
  page_hist,           \* history: page id -> the bytes it had when it was last
                       \* unpinned dirty or flushed, whether it was written
                       \* since, and whether it was deleted
  pool_nops,           \* history: number of buffer pool calls made
  lru_source,          \* which source of LRUKReplacer runs on its own
  lru,                 \* that LRUKReplacer
  lru_last,            \* history: the last call of lru and its result
  lru_nops,            \* history: number of calls of lru made
  lru_script,          \* history: how far the scripted accesses have got, the
                       \* frames marked evictable, the victims, and a throw
  ht,                  \* the ExtendibleHashTable running on its own
  ht_kv,               \* history: key -> value inserted and not removed (0: none)
  ht_last,             \* history: the last call of ht, its result, the table
                       \* before it, and whether its key was present
  ht_nops,             \* history: number of calls of ht made
  pool_io,             \* thread -> the NewPage or FetchPage that has released
                       \* global_latch_ and holds the latch of its frame
  iter,                \* the IndexIterator: does it exist, its page_id_ and
                       \* index_, and the last operation on it
  client_pin,          \* page id -> pins another caller of the buffer pool holds
  ht_io,               \* thread -> the Insert of ht that found its bucket full
                       \* and waits for the exclusive global_latch_
  lru_pair             \* the replacers of part_005 and part_004 given the same
                       \* calls, and the results of the last call

treeVars == <<pages, root_page_id_, tree_next_page_id_, pin, ub,
              leaf_max_size_, internal_max_size_, kv, last, nops>>

threadVars == <<pc, call, path, root_page_id_guard_, global_latch_, ret, in_write,
                overlap, only_inserts>>

poolVars == <<pool_source, pool_size_, pages_, free_list_, page_table_, next_page_id_,
              replacer_, disk, fault, pool_last, null_seen, page_hist, pool_nops>>

replacerVars == <<lru_source, lru, lru_last, lru_nops, lru_script>>

hashVars == <<ht, ht_kv, ht_last, ht_nops>>

callVars == <<pool_io, iter, client_pin, ht_io, lru_pair>>

vars == <<treeVars, threadVars, poolVars, replacerVars, hashVars, callVars>>

\* ------------------------------------------------------------------------
\* Small helpers
\* ------------------------------------------------------------------------
SetMin(S) == CHOOSE x \in S : \A y \in S : x <= y
SetMax(S) == CHOOSE x \in S : \A y \in S : x >= y

Pair(k, v) == [first |-> k, second |-> v]

InsertAt(arr, pos, e) == SubSeq(arr, 1, pos - 1) \o <<e>> \o SubSeq(arr, pos, Len(arr))
RemoveAt(arr, pos) == SubSeq(arr, 1, pos - 1) \o SubSeq(arr, pos + 1, Len(arr))

\* A page whose bytes are all zero (Page::ResetMemory, or a page read from a
\* disk block that was never written).
ZeroPage ==
  [page_type |-> "INVALID_INDEX_PAGE", array_ |-> <<>>, max_size_ |-> 0,
   parent_page_id_ |-> 0, page_id_ |-> 0, next_page_id_ |-> 0]

LeafInit(page_id, parent_id, max_size) ==
  [page_type |-> "LEAF_PAGE", array_ |-> <<>>, max_size_ |-> max_size,
   parent_page_id_ |-> parent_id, page_id_ |-> page_id,
   next_page_id_ |-> INVALID_PAGE_ID]

\* Slot 0 of a fresh internal page is counted by size_ = 1; its bytes are the
\* zeroes left by ResetMemory.
InternalInit(page_id, parent_id, max_size) ==
  [page_type |-> "INTERNAL_PAGE", array_ |-> <<Pair(0, 0)>>, max_size_ |-> max_size,
   parent_page_id_ |-> parent_id, page_id_ |-> page_id, next_page_id_ |-> 0]

IsLeafPage(page) == page.page_type = "LEAF_PAGE"
GetSize(page) == Len(page.array_)
GetMinSize(page) == (page.max_size_ + 1) \div 2

IsOverFlowed(page) ==
  \/ IsLeafPage(page) /\ GetSize(page) = page.max_size_
  \/ ~IsLeafPage(page) /\ GetSize(page) = page.max_size_ + 1

IsUnderFlowed(page) == GetSize(page) < GetMinSize(page)

\* ------------------------------------------------------------------------
\* Per-node helpers of the tree (index_iterator.cpp, UTILITIES AND DEBUG)
\* ------------------------------------------------------------------------
\* InsertIntoLeaf without the test for an equal key.
InsertIntoLeaf_NoDuplicateTest(arr, key, value) ==
  LET S == {i \in 1..Len(arr) : key <= arr[i].first}
      index == IF S = {} THEN Len(arr) + 1 ELSE SetMin(S)
  IN [ok |-> TRUE, arr |-> InsertAt(arr, index, Pair(key, value))]

InsertIntoLeaf(arr, key, value) ==
  LET S == {i \in 1..Len(arr) : key <= arr[i].first}
      index == IF S = {} THEN Len(arr) + 1 ELSE SetMin(S)
  IN IF index <= Len(arr) /\ arr[index].first = key
       THEN [ok |-> FALSE, arr |-> arr]
       ELSE [ok |-> TRUE, arr |-> InsertAt(arr, index, Pair(key, value))]

\* 0 stands for nullptr.
LowerBoundLeaf(arr, key) ==
  LET S == {i \in 1..Len(arr) : key >= arr[i].first}
  IN IF S = {} THEN 0 ELSE SetMax(S)

\* LowerBoundInternal with a strict comparison: a key equal to a separator
\* is sent to the child on the separator's left.
LowerBoundInternal_Strict(arr, key) ==
  LET S == {i \in 2..Len(arr) : key > arr[i].first}
  IN IF S # {} THEN SetMax(S) ELSE IF Len(arr) = 0 THEN 0 ELSE 1

\* Position (1-based) of the slot the loop of LowerBoundInternal and
\* InsertIntoInternal stops at; 0 when the page has no slot at all.
LowerBoundInternal(arr, key) ==
  LET S == {i \in 2..Len(arr) : key >= arr[i].first}
  IN IF S # {} THEN SetMax(S) ELSE IF Len(arr) = 0 THEN 0 ELSE 1

InsertIntoInternal(arr, key, child_page_id) ==
  InsertAt(arr, LowerBoundInternal(arr, key) + 1, Pair(key, child_page_id))

RemoveFromLeaf(arr, key) ==
  LET S == {i \in 1..Len(arr) : arr[i].first = key}
  IN IF S = {} THEN [ok |-> FALSE, arr |-> arr]
     ELSE [ok |-> TRUE, arr |-> RemoveAt(arr, SetMin(S))]

\* ------------------------------------------------------------------------
\* The buffer pool as the tree sees it when the pool is large enough that no
\* frame is ever evicted: a page stays resident until DeletePage succeeds.
\* A tree state t is [pg, root, nxt, pin, ub, lmax, imax].
\* ------------------------------------------------------------------------
FetchPage(t, p) == [t EXCEPT !.pin[p] = @ + 1]

UnpinPage(t, p) ==
  IF p \in DOMAIN t.pin /\ t.pin[p] > 0 THEN [t EXCEPT !.pin[p] = @ - 1] ELSE t

NewPage(t) == [t EXCEPT !.nxt = @ + 1, !.pin[t.nxt] = 1, !.pg[t.nxt] = ZeroPage]

DeletePage(t, p) == IF t.pin[p] # 0 THEN t ELSE [t EXCEPT !.pg[p] = ZeroPage]

UpdateRootPageId(t) == UnpinPage(FetchPage(t, HEADER_PAGE_ID), HEADER_PAGE_ID)

SetArr(t, p, arr) == [t EXCEPT !.pg[p].array_ = arr]
Undefined(t) == [t EXCEPT !.ub = TRUE]

\* ------------------------------------------------------------------------
\* SEARCH
\* ------------------------------------------------------------------------
\* The outcomes of GetValue(key) on the tree (pg, root): the records
\* [found, value].  Interpreting a zeroed page as a tree node reads slots
\* that do not exist; any outcome is then possible.
AnyResult == {[found |-> FALSE, value |-> 0]} \cup {[found |-> TRUE, value |-> v] : v \in 0..MaxVal}

RECURSIVE GetValueInternal(_, _, _)
GetValueInternal(pg, page_id, key) ==
  LET cur == pg[page_id] IN
  IF cur.page_type = "INVALID_INDEX_PAGE" THEN AnyResult
  ELSE IF IsLeafPage(cur) THEN
    LET node == LowerBoundLeaf(cur.array_, key) IN
    IF node # 0 /\ cur.array_[node].first = key
      THEN {[found |-> TRUE, value |-> cur.array_[node].second]}
      ELSE {[found |-> FALSE, value |-> 0]}
  ELSE GetValueInternal(pg, cur.array_[LowerBoundInternal(cur.array_, key)].second, key)

IsEmpty(root) == root = INVALID_PAGE_ID

GetValue(pg, root, key) ==
  IF IsEmpty(root) THEN {[found |-> FALSE, value |-> 0]}
  ELSE GetValueInternal(pg, root, key)

\* ------------------------------------------------------------------------
\* INSERTION
\* ------------------------------------------------------------------------
\* Lines 201-257 of InsertInternal: the page page_id is overflowed.
SplitNewRoot(t, page_id) ==
  IF t.pg[page_id].parent_page_id_ # INVALID_PAGE_ID THEN t
  ELSE
    LET new_root_page_id == t.nxt
        t1 == NewPage(t)
        t2 == [t1 EXCEPT
                 !.pg[new_root_page_id] =
                    [InternalInit(new_root_page_id, INVALID_PAGE_ID, t.imax)
                       EXCEPT !.array_ = <<Pair(0, t.pg[page_id].page_id_)>>],
                 !.pg[page_id].parent_page_id_ = new_root_page_id,
                 !.root = new_root_page_id]
    IN UpdateRootPageId(UnpinPage(t2, new_root_page_id))

RECURSIVE SetChildrenParent(_, _, _)
SetChildrenParent(t, children, parent_id) ==
  IF children = <<>> THEN t
  ELSE
    LET c == Head(children).second
        t1 == FetchPage(t, c)
        t2 == [t1 EXCEPT !.pg[c].parent_page_id_ = parent_id]
    IN SetChildrenParent(UnpinPage(t2, t2.pg[c].page_id_), Tail(children), parent_id)

\* SplitLeaf with the leaf keeping size / 2 entries, as SplitInternal does.
SplitLeaf_KeepsHalf(t, page_id, parent_page_id, sibling_page_id) ==
  LET cur == t.pg[page_id]
      half == Len(cur.array_) \div 2
      sib_arr == SubSeq(cur.array_, half + 1, Len(cur.array_))
      sibling == [LeafInit(sibling_page_id, parent_page_id, t.lmax) EXCEPT !.array_ = sib_arr]
  IN [t EXCEPT
        !.pg[sibling_page_id] = sibling,
        !.pg[page_id].array_ = SubSeq(cur.array_, 1, half),
        !.pg[parent_page_id].array_ =
            InsertIntoInternal(@, sib_arr[1].first, sibling.page_id_),
        !.pg[page_id].next_page_id_ = sibling.page_id_]

SplitLeaf(t, page_id, parent_page_id, sibling_page_id) ==
  LET cur == t.pg[page_id]
      min == GetMinSize(cur)
      sib_arr == SubSeq(cur.array_, min + 1, Len(cur.array_))
      sibling == [LeafInit(sibling_page_id, parent_page_id, t.lmax) EXCEPT !.array_ = sib_arr]
  IN [t EXCEPT
        !.pg[sibling_page_id] = sibling,
        !.pg[page_id].array_ = SubSeq(cur.array_, 1, min),
        !.pg[parent_page_id].array_ =
            InsertIntoInternal(@, sib_arr[1].first, sibling.page_id_),
        !.pg[page_id].next_page_id_ = sibling.page_id_]

SplitInternal(t, page_id, parent_page_id, sibling_page_id) ==
  LET cur == t.pg[page_id]
      half == Len(cur.array_) \div 2
      sib_arr == SubSeq(cur.array_, half + 1, Len(cur.array_))
      sibling == [InternalInit(sibling_page_id, parent_page_id, t.imax) EXCEPT !.array_ = sib_arr]
      t1 == [t EXCEPT !.pg[sibling_page_id] = sibling,
                      !.pg[page_id].array_ = SubSeq(cur.array_, 1, half)]
      t2 == SetChildrenParent(t1, sib_arr, sibling.page_id_)
  IN [t2 EXCEPT !.pg[parent_page_id].array_ =
                   InsertIntoInternal(@, sib_arr[1].first, sibling.page_id_)]

Split(t, page_id) ==
  LET t1 == SplitNewRoot(t, page_id)
      parent_page_id == t1.pg[page_id].parent_page_id_
      t2 == FetchPage(t1, parent_page_id)
      sibling_page_id == t2.nxt
      t3 == NewPage(t2)
      t4 == IF IsLeafPage(t3.pg[page_id])
              THEN SplitLeaf(t3, page_id, parent_page_id, sibling_page_id)
              ELSE SplitInternal(t3, page_id, parent_page_id, sibling_page_id)
  IN UnpinPage(UnpinPage(UnpinPage(t4, page_id), parent_page_id), sibling_page_id)

RECURSIVE InsertInternal(_, _, _, _)
InsertInternal(t, page_id, key, value) ==
  LET t1 == FetchPage(t, page_id)
      cur == t1.pg[page_id]
  IN
  IF cur.page_type = "INVALID_INDEX_PAGE" THEN [t |-> Undefined(t1), ret |-> FALSE]
  ELSE
    LET r == IF IsLeafPage(cur)
               THEN LET ins == InsertIntoLeaf(cur.array_, key, value)
                    IN [t |-> SetArr(t1, page_id, ins.arr), ret |-> ins.ok]
               ELSE InsertInternal(t1, cur.array_[LowerBoundInternal(cur.array_, key)].second,
                                   key, value)
    IN
    IF r.t.ub THEN r
    ELSE IF ~r.ret THEN [t |-> UnpinPage(r.t, page_id), ret |-> FALSE]
    ELSE IF ~IsOverFlowed(r.t.pg[page_id]) THEN [t |-> UnpinPage(r.t, page_id), ret |-> TRUE]
    ELSE [t |-> Split(r.t, page_id), ret |-> TRUE]

\* BPlusTree::Insert, lines 156-166.
InsertCall(t, key, value) ==
  LET t1 == IF t.root = INVALID_PAGE_ID
              THEN LET n == NewPage(t)
                       i == [n EXCEPT !.root = t.nxt,
                                      !.pg[t.nxt] = LeafInit(t.nxt, INVALID_PAGE_ID, t.lmax)]
                   IN UnpinPage(UpdateRootPageId(i), i.root)
              ELSE t
  IN InsertInternal(t1, t1.root, key, value)

\* ------------------------------------------------------------------------
\* REMOVE
\* ------------------------------------------------------------------------
Invalid(page) == page.page_type = "INVALID_INDEX_PAGE"

\* Lines 306-312: the slot of the parent that points to page_id, slot 0 when
\* there is none.
IndexInParent(parent_arr, page_id) ==
  LET S == {i \in 1..Len(parent_arr) : parent_arr[i].second = page_id}
  IN IF S = {} THEN 1 ELSE SetMin(S)

\* Lines 321-341: move the last entry of the left sibling into page_id.
BorrowFromLeft(t, page_id, parent_page_id, index, left_sibling_page_id) ==
  LET cur == t.pg[page_id]
      left == t.pg[left_sibling_page_id]
      moved == left.array_[Len(left.array_)]
      cur_arr == IF IsLeafPage(cur)
                   THEN InsertIntoLeaf(cur.array_, moved.first, moved.second).arr
                   ELSE InsertIntoInternal(cur.array_, moved.first, moved.second)
      t1 == [t EXCEPT !.pg[page_id].array_ = cur_arr,
                      !.pg[parent_page_id].array_[index].first = cur_arr[1].first]
      child_page_id == cur_arr[1].second
      t2 == IF IsLeafPage(cur) THEN t1
            ELSE UnpinPage([FetchPage(t1, child_page_id)
                              EXCEPT !.pg[child_page_id].page_id_ = cur.page_id_],
                           child_page_id)
      t3 == [t2 EXCEPT !.pg[left_sibling_page_id].array_ = SubSeq(@, 1, Len(@) - 1)]
  IN UnpinPage(UnpinPage(UnpinPage(t3, page_id), parent_page_id), left_sibling_page_id)

\* Lines 353-378: move the first entry of the right sibling into page_id.
BorrowFromRight(t, page_id, parent_page_id, index, right_sibling_page_id) ==
  LET cur == t.pg[page_id]
      right == t.pg[right_sibling_page_id]
      moved == right.array_[1]
      cur_arr == IF IsLeafPage(cur)
                   THEN InsertIntoLeaf(cur.array_, moved.first, moved.second).arr
                   ELSE InsertIntoInternal(cur.array_, moved.first, moved.second)
      right_arr == IF IsLeafPage(cur)
                     THEN RemoveFromLeaf(right.array_, moved.first).arr
                     ELSE Tail(right.array_)
      t1 == [t EXCEPT !.pg[page_id].array_ = cur_arr,
                      !.pg[right_sibling_page_id].array_ = right_arr,
                      !.pg[parent_page_id].array_[index + 1].first = right_arr[1].first]
      child_page_id == cur_arr[Len(cur_arr)].second
      t2 == IF IsLeafPage(cur) THEN t1
            ELSE UnpinPage([FetchPage(t1, child_page_id)
                              EXCEPT !.pg[child_page_id].page_id_ = cur.page_id_],
                           child_page_id)
  IN UnpinPage(UnpinPage(UnpinPage(t2, page_id), parent_page_id), right_sibling_page_id)

RECURSIVE MergeLeafEntries(_, _)
MergeLeafEntries(left_arr, right_arr) ==
  IF right_arr = <<>> THEN left_arr
  ELSE MergeLeafEntries(
         InsertIntoLeaf(left_arr, Head(right_arr).first, Head(right_arr).second).arr,
         Tail(right_arr))

RECURSIVE MergeInternalEntries(_, _)
MergeInternalEntries(left_arr, right_arr) ==
  IF right_arr = <<>> THEN left_arr
  ELSE MergeInternalEntries(
         InsertIntoInternal(left_arr, Head(right_arr).first, Head(right_arr).second),
         Tail(right_arr))

\* Lines 424-432: the parent's entry for the right page is overwritten by
\* shifting its successors left; size_ is left as it is.
RemoveFromParent(parent_arr, right_page_id) ==
  LET S == {i \in 2..Len(parent_arr) : parent_arr[i].second = right_page_id}
      index == IF S = {} THEN Len(parent_arr) + 1 ELSE SetMin(S)
  IN IF index >= Len(parent_arr) THEN parent_arr
     ELSE RemoveAt(parent_arr, index) \o <<parent_arr[Len(parent_arr)]>>

\* Lines 391-437.
Merge(t, page_id, parent_page_id, index) ==
  LET parent == t.pg[parent_page_id]
      cur_is_left == index < Len(parent.array_)
      left_sibling_page_id ==
        IF cur_is_left THEN page_id ELSE parent.array_[index - 1].second
      right_sibling_page_id ==
        IF cur_is_left THEN parent.array_[index + 1].second ELSE page_id
      t1 == FetchPage(t, IF cur_is_left THEN right_sibling_page_id ELSE left_sibling_page_id)
      left == t1.pg[left_sibling_page_id]
      right == t1.pg[right_sibling_page_id]
  IN
  IF ~IsLeafPage(left) /\ (Invalid(left) \/ right.page_type # "INTERNAL_PAGE"
                           \/ left_sibling_page_id = right_sibling_page_id)
    THEN Undefined(t1)
  ELSE
    LET t2 == IF IsLeafPage(left)
                THEN [t1 EXCEPT
                        !.pg[left_sibling_page_id].array_ =
                            MergeLeafEntries(left.array_, right.array_),
                        !.pg[left_sibling_page_id].next_page_id_ = right.next_page_id_]
                ELSE [t1 EXCEPT
                        !.pg[left_sibling_page_id].array_ =
                            MergeInternalEntries(left.array_, right.array_)]
        t3 == [t2 EXCEPT !.pg[parent_page_id].array_ =
                            RemoveFromParent(@, t2.pg[right_sibling_page_id].page_id_)]
        t4 == UnpinPage(UnpinPage(UnpinPage(t3, left_sibling_page_id),
                                  right_sibling_page_id), parent_page_id)
    IN DeletePage(t4, right_sibling_page_id)

\* Lines 303-438 of RemoveInternal: page_id is underflowed and is not the root.
Rebalance(t, page_id) ==
  LET parent_page_id == t.pg[page_id].parent_page_id_
      t1 == FetchPage(t, parent_page_id)
      parent == t1.pg[parent_page_id]
      index == IndexInParent(parent.array_, page_id)
      left_sibling_page_id ==
        IF index > 1 THEN parent.array_[index - 1].second ELSE INVALID_PAGE_ID
      t2 == IF left_sibling_page_id # INVALID_PAGE_ID
              THEN FetchPage(t1, left_sibling_page_id) ELSE t1
      canLeft == /\ left_sibling_page_id # INVALID_PAGE_ID
                 /\ GetSize(t2.pg[left_sibling_page_id]) > GetMinSize(t2.pg[left_sibling_page_id])
      right_sibling_page_id ==
        IF index < Len(parent.array_) THEN parent.array_[index + 1].second ELSE INVALID_PAGE_ID
      t3 == IF right_sibling_page_id # INVALID_PAGE_ID
              THEN FetchPage(t2, right_sibling_page_id) ELSE t2
      canRight == /\ right_sibling_page_id # INVALID_PAGE_ID
                  /\ GetSize(t3.pg[right_sibling_page_id]) > GetMinSize(t3.pg[right_sibling_page_id])
  IN
  IF parent.page_type # "INTERNAL_PAGE" THEN Undefined(t1)
  ELSE IF canLeft THEN BorrowFromLeft(t2, page_id, parent_page_id, index, left_sibling_page_id)
  ELSE IF canRight THEN BorrowFromRight(t3, page_id, parent_page_id, index, right_sibling_page_id)
  ELSE IF Len(parent.array_) = 1 THEN UnpinPage(UnpinPage(t3, page_id), parent_page_id)
  ELSE Merge(t3, page_id, parent_page_id, index)

RECURSIVE RemoveInternal(_, _, _)
RemoveInternal(t, page_id, key) ==
  LET t1 == FetchPage(t, page_id)
      cur == t1.pg[page_id]
  IN
  IF Invalid(cur) THEN Undefined(t1)
  ELSE IF IsLeafPage(cur) /\ ~RemoveFromLeaf(cur.array_, key).ok THEN UnpinPage(t1, page_id)
  ELSE
    LET t2 == IF IsLeafPage(cur)
                THEN SetArr(t1, page_id, RemoveFromLeaf(cur.array_, key).arr)
                ELSE RemoveInternal(t1, cur.array_[LowerBoundInternal(cur.array_, key)].second, key)
    IN
    IF t2.ub THEN t2
    ELSE IF t2.root = page_id \/ ~IsUnderFlowed(t2.pg[page_id]) THEN UnpinPage(t2, page_id)
    ELSE Rebalance(t2, page_id)

\* BPlusTree::Remove, lines 270-278.
RemoveCall(t, key) == IF IsEmpty(t.root) THEN t ELSE RemoveInternal(t, t.root, key)

\* ------------------------------------------------------------------------
\* InsertInternal and RemoveInternal in two parts.  Both recurse down to the
\* leaf, change it, and restructure on the way back up.  The descent with
\* the change of the leaf is the first part; the way back up over the pages
\* the calls still hold pinned (path, leaf first) is the second.
\* ------------------------------------------------------------------------
\* Lines 171-187 of InsertInternal, down to InsertIntoLeaf.
RECURSIVE InsertDescend(_, _, _, _)
InsertDescend(t, page_id, key, value) ==
  LET t1 == FetchPage(t, page_id)
      cur == t1.pg[page_id]
  IN
  IF Invalid(cur) THEN [t |-> Undefined(t1), ret |-> FALSE, path |-> <<>>]
  ELSE IF IsLeafPage(cur) THEN
    LET ins == InsertIntoLeaf(cur.array_, key, value)
    IN [t |-> SetArr(t1, page_id, ins.arr), ret |-> ins.ok, path |-> <<page_id>>]
  ELSE
    LET r == InsertDescend(t1, cur.array_[LowerBoundInternal(cur.array_, key)].second,
                           key, value)
    IN IF r.t.ub THEN r ELSE [r EXCEPT !.path = Append(@, page_id)]

\* Lines 179-257 of InsertInternal in every frame of the recursion, from the
\* leaf's frame to the root's.
RECURSIVE InsertUnwind(_, _, _)
InsertUnwind(t, pinned, is_inserted) ==
  IF pinned = <<>> \/ t.ub THEN t
  ELSE
    LET page_id == Head(pinned)
        t1 == IF ~is_inserted \/ ~IsOverFlowed(t.pg[page_id])
                THEN UnpinPage(t, page_id)
                ELSE Split(t, page_id)
    IN InsertUnwind(t1, Tail(pinned), is_inserted)

\* Lines 283-296 of RemoveInternal, down to RemoveFromLeaf.
RECURSIVE RemoveDescend(_, _, _)
RemoveDescend(t, page_id, key) ==
  LET t1 == FetchPage(t, page_id)
      cur == t1.pg[page_id]
  IN
  IF Invalid(cur) THEN [t |-> Undefined(t1), ret |-> FALSE, path |-> <<>>]
  ELSE IF IsLeafPage(cur) THEN
    LET rem == RemoveFromLeaf(cur.array_, key)
    IN IF rem.ok
         THEN [t |-> SetArr(t1, page_id, rem.arr), ret |-> TRUE, path |-> <<page_id>>]
         ELSE [t |-> UnpinPage(t1, page_id), ret |-> FALSE, path |-> <<>>]
  ELSE
    LET r == RemoveDescend(t1, cur.array_[LowerBoundInternal(cur.array_, key)].second, key)
    IN IF r.t.ub THEN r ELSE [r EXCEPT !.path = Append(@, page_id)]

\* Lines 298-438 of RemoveInternal in every frame of the recursion.
RECURSIVE RemoveUnwind(_, _)
RemoveUnwind(t, pinned) ==
  IF pinned = <<>> \/ t.ub THEN t
  ELSE
    LET page_id == Head(pinned)
        t1 == IF t.root = page_id \/ ~IsUnderFlowed(t.pg[page_id])
                THEN UnpinPage(t, page_id)
                ELSE Rebalance(t, page_id)
    IN RemoveUnwind(t1, Tail(pinned))

\* ------------------------------------------------------------------------
\* INDEX ITERATOR
\* ------------------------------------------------------------------------
\* Begin(): the leaf the iterator starts at; "undefined" when the descent
\* meets a zeroed page.
RECURSIVE BeginInternal(_, _)
BeginInternal(pg, cur_page_id) ==
  LET cur == pg[cur_page_id] IN
  IF Invalid(cur) THEN [status |-> "undefined", page_id |-> cur_page_id]
  ELSE IF IsLeafPage(cur) THEN [status |-> "ok", page_id |-> cur_page_id]
  ELSE BeginInternal(pg, cur.array_[1].second)

Begin(pg, root) ==
  IF root = INVALID_PAGE_ID THEN [status |-> "ok", page_id |-> INVALID_PAGE_ID]
  ELSE BeginInternal(pg, root)

\* The keys  for (it = Begin(); it != End(); ++it) *it  yields from the leaf
\* page_id on.  operator++ leaves a leaf when index_ + 1 >= size, so an empty
\* leaf yields the bytes of its slot 0 once ("stale_slot"); a chain that
\* enters a zeroed page is "undefined"; one that does not end is "cycle".
RECURSIVE ScanFrom(_, _, _)
ScanFrom(pg, page_id, fuel) ==
  IF page_id = INVALID_PAGE_ID THEN [status |-> "ok", keys |-> <<>>]
  ELSE IF fuel = 0 THEN [status |-> "cycle", keys |-> <<>>]
  ELSE IF page_id \notin DOMAIN pg \/ ~IsLeafPage(pg[page_id])
    THEN [status |-> "undefined", keys |-> <<>>]
  ELSE IF pg[page_id].array_ = <<>> THEN [status |-> "stale_slot", keys |-> <<>>]
  ELSE
    LET rest == ScanFrom(pg, pg[page_id].next_page_id_, fuel - 1)
        here == [i \in 1..Len(pg[page_id].array_) |-> pg[page_id].array_[i].first]
    IN [status |-> rest.status, keys |-> here \o rest.keys]

Scan(pg, root) ==
  LET b == Begin(pg, root) IN
  IF b.status # "ok" THEN [status |-> "undefined", keys |-> <<>>]
  ELSE ScanFrom(pg, b.page_id, Cardinality(DOMAIN pg) + 1)

\* ------------------------------------------------------------------------
\* LRU-K REPLACER (part_005).  history_[f] has the newest timestamp first.
\* ------------------------------------------------------------------------
Last(seq) == seq[Len(seq)]

\* The 1e9 that Evict starts frame_id_t id and ends highest_diff with.
NoFrame == 1000000000

ReplacerInit(num_frames, k) ==
  [k_ |-> k,
   history_ |-> [f \in 0..(num_frames - 1) |-> <<>>],
   allocated_ |-> [f \in 0..(num_frames - 1) |-> FALSE],
   evictable_ |-> [f \in 0..(num_frames - 1) |-> FALSE],
   curr_size_ |-> 0,
   current_timestamp_ |-> 0]

ReplacerSize(r) == r.curr_size_

\* IsValidFrameId: frame_id < static_cast<int>(replacer_size_), a comparison
\* of ints that a negative frame id passes.
IsValidFrameId(r, frame_id) == frame_id < Cardinality(DOMAIN r.history_)

\* RemoveInternal that leaves the history of the frame in place.
RemoveInternal_KeepsHistory(r, frame_id) ==
  [r EXCEPT !.evictable_[frame_id] = FALSE,
            !.allocated_[frame_id] = FALSE,
            !.curr_size_ = @ - 1]

RemoveInternal_Replacer(r, frame_id) ==
  [r EXCEPT !.history_[frame_id] = <<>>,
            !.evictable_[frame_id] = FALSE,
            !.allocated_[frame_id] = FALSE,
            !.curr_size_ = @ - 1]

\* Evict, lines 36-52: the first loop over the frames from i on.  id is the
\* frame found so far and highest_diff its distance; a candidate with a
\* history that is not of k_ accesses ends the loop with highest_diff 1e9.
RECURSIVE EvictFirstLoop(_, _, _, _)
EvictFirstLoop(r, i, id, highest_diff) ==
  IF i \notin DOMAIN r.history_ THEN [id |-> id, highest_diff |-> highest_diff]
  ELSE IF ~r.allocated_[i] \/ ~r.evictable_[i] THEN EvictFirstLoop(r, i + 1, id, highest_diff)
  ELSE IF Len(r.history_[i]) = r.k_ THEN
    LET diff == r.current_timestamp_ - Last(r.history_[i]) IN
    IF diff > highest_diff THEN EvictFirstLoop(r, i + 1, i, diff)
    ELSE EvictFirstLoop(r, i + 1, id, highest_diff)
  ELSE [id |-> id, highest_diff |-> NoFrame]

\* Evict, lines 53-64: the second loop, over the candidates whose history is
\* not of k_ accesses.
RECURSIVE EvictSecondLoop(_, _, _, _)
EvictSecondLoop(r, i, id, earliest_time) ==
  IF i \notin DOMAIN r.history_ THEN id
  ELSE IF ~r.allocated_[i] \/ ~r.evictable_[i] \/ Len(r.history_[i]) = r.k_
    THEN EvictSecondLoop(r, i + 1, id, earliest_time)
  ELSE IF Last(r.history_[i]) < earliest_time
    THEN EvictSecondLoop(r, i + 1, i, Last(r.history_[i]))
  ELSE EvictSecondLoop(r, i + 1, id, earliest_time)

\* Evict without its second loop.
EvictVictim_FirstLoopOnly(r) == EvictFirstLoop(r, 0, NoFrame, 0).id

\* The frame Evict chooses; NoFrame when no loop has found one, which would
\* index the vectors out of range.
EvictVictim(r) ==
  LET first == EvictFirstLoop(r, 0, NoFrame, 0) IN
  IF first.highest_diff = NoFrame
    THEN EvictSecondLoop(r, 0, first.id, r.current_timestamp_)
    ELSE first.id

Evict(r) ==
  IF r.curr_size_ = 0 THEN [ok |-> FALSE, r |-> r, frame_id |-> 0, undefined |-> FALSE]
  ELSE IF EvictVictim(r) = NoFrame
    THEN [ok |-> TRUE, r |-> r, frame_id |-> 0, undefined |-> TRUE]
  ELSE [ok |-> TRUE, r |-> RemoveInternal_Replacer(r, EvictVictim(r)),
        frame_id |-> EvictVictim(r), undefined |-> FALSE]

\* RecordAccess that never trims the history to k_ accesses.
RecordAccess_NoTrim(r, frame_id) ==
  LET r1 == IF ~r.allocated_[frame_id]
              THEN [r EXCEPT !.allocated_[frame_id] = TRUE, !.evictable_[frame_id] = FALSE]
              ELSE r
  IN [r1 EXCEPT !.current_timestamp_ = @ + 1,
                !.history_[frame_id] = <<r.current_timestamp_>> \o @]

RecordAccess(r, frame_id) ==
  LET r1 == IF ~r.allocated_[frame_id]
              THEN [r EXCEPT !.allocated_[frame_id] = TRUE, !.evictable_[frame_id] = FALSE]
              ELSE r
      h == <<r.current_timestamp_>> \o r.history_[frame_id]
  IN [r1 EXCEPT !.current_timestamp_ = @ + 1,
                !.history_[frame_id] = IF Len(h) > r.k_ THEN SubSeq(h, 1, Len(h) - 1) ELSE h]

\* SetEvictable without the update of curr_size_.
SetEvictable_NoCount(r, frame_id, set_evictable) ==
  IF ~r.allocated_[frame_id] THEN r
  ELSE [r EXCEPT !.evictable_[frame_id] = set_evictable]

SetEvictable(r, frame_id, set_evictable) ==
  IF ~r.allocated_[frame_id] THEN r
  ELSE [r EXCEPT !.curr_size_ = IF ~r.evictable_[frame_id] /\ set_evictable THEN @ + 1
                                ELSE IF r.evictable_[frame_id] /\ ~set_evictable THEN @ - 1
                                ELSE @,
                 !.evictable_[frame_id] = set_evictable]

\* Remove without the test that the frame is evictable.
ReplacerRemove_NoEvictableTest(r, frame_id) ==
  IF ~r.allocated_[frame_id] THEN [r |-> r, threw |-> FALSE]
  ELSE [r |-> RemoveInternal_Replacer(r, frame_id), threw |-> FALSE]

\* A Remove that leaves the frame tracked.
ReplacerRemove_Nothing(r, frame_id) == [r |-> r, threw |-> FALSE]

\* Remove throws when the frame is allocated and not evictable.
ReplacerRemove(r, frame_id) ==
  IF ~r.allocated_[frame_id] THEN [r |-> r, threw |-> FALSE]
  ELSE IF ~r.evictable_[frame_id] THEN [r |-> r, threw |-> TRUE]
  ELSE [r |-> RemoveInternal_Replacer(r, frame_id), threw |-> FALSE]

\* ------------------------------------------------------------------------
\* The LRU-K replacer of part_004, which keeps the evictable frames in two
\* maps from the oldest timestamp of the history to the frame:
\* complete_histories_ and incomplete_histories_.  A map is the set of its
\* <<key, value>> entries.
\* ------------------------------------------------------------------------
MapErase(map, key) == {e \in map : e[1] # key}
MapPut(map, key, value) == MapErase(map, key) \cup {<<key, value>>}

\* begin()->second: the value under the smallest key, the maps being ordered
\* by key.
MapBegin(map) == (CHOOSE e \in map : \A d \in map : e[1] <= d[1])[2]

ReplacerInit_Indexed(num_frames, k) ==
  [k_ |-> k,
   history_ |-> [f \in 0..(num_frames - 1) |-> <<>>],
   allocated_ |-> [f \in 0..(num_frames - 1) |-> FALSE],
   evictable_ |-> [f \in 0..(num_frames - 1) |-> FALSE],
   curr_size_ |-> 0,
   current_timestamp_ |-> 0,
   complete_histories_ |-> {},
   incomplete_histories_ |-> {}]

\* history_[frame_id].back() of an empty list is undefined; no key is erased
\* for it here.
RemoveInternal_Indexed(r, frame_id) ==
  LET h == r.history_[frame_id]
      erased == IF h = <<>> THEN r
                ELSE [r EXCEPT !.complete_histories_ = MapErase(@, Last(h)),
                               !.incomplete_histories_ = MapErase(@, Last(h))]
  IN [erased EXCEPT !.history_[frame_id] = <<>>,
                    !.evictable_[frame_id] = FALSE,
                    !.allocated_[frame_id] = FALSE,
                    !.curr_size_ = @ - 1]

\* begin() of an empty map, with curr_size_ > 0, would dereference end().
Evict_Indexed(r) ==
  IF r.curr_size_ = 0 THEN [ok |-> FALSE, r |-> r, frame_id |-> 0, undefined |-> FALSE]
  ELSE IF r.incomplete_histories_ # {} THEN
    LET id == MapBegin(r.incomplete_histories_) IN
    [ok |-> TRUE, r |-> RemoveInternal_Indexed(r, id), frame_id |-> id, undefined |-> FALSE]
  ELSE IF r.complete_histories_ # {} THEN
    LET id == MapBegin(r.complete_histories_) IN
    [ok |-> TRUE, r |-> RemoveInternal_Indexed(r, id), frame_id |-> id, undefined |-> FALSE]
  ELSE [ok |-> TRUE, r |-> r, frame_id |-> 0, undefined |-> TRUE]

RecordAccess_Indexed(r, frame_id) ==
  LET r1 == IF ~r.allocated_[frame_id]
              THEN [r EXCEPT !.allocated_[frame_id] = TRUE, !.evictable_[frame_id] = FALSE]
              ELSE r
      h == <<r.current_timestamp_>> \o r.history_[frame_id]
      popped == SubSeq(h, 1, Len(h) - 1)
      r2 == [r1 EXCEPT !.current_timestamp_ = @ + 1]
  IN
  IF r1.evictable_[frame_id] THEN
    IF Len(h) > r.k_ THEN
      [r2 EXCEPT !.history_[frame_id] = popped,
                 !.complete_histories_ = MapPut(MapErase(@, Last(h)), Last(popped), frame_id)]
    ELSE IF Len(h) = r.k_ THEN
      [r2 EXCEPT !.history_[frame_id] = h,
                 !.incomplete_histories_ = IF Len(h) > 1 THEN MapErase(@, Last(h)) ELSE @,
                 !.complete_histories_ = MapPut(@, Last(h), frame_id)]
    ELSE
      [r2 EXCEPT !.history_[frame_id] = h,
                 !.incomplete_histories_ = MapPut(@, Last(h), frame_id)]
  ELSE
    [r2 EXCEPT !.history_[frame_id] = IF Len(h) > r.k_ THEN popped ELSE h]

SetEvictable_Indexed(r, frame_id, set_evictable) ==
  IF ~r.allocated_[frame_id] THEN r
  ELSE
    LET h == r.history_[frame_id] IN
    IF ~r.evictable_[frame_id] /\ set_evictable THEN
      IF Len(h) = r.k_
        THEN [r EXCEPT !.curr_size_ = @ + 1, !.evictable_[frame_id] = TRUE,
                       !.complete_histories_ = MapPut(@, Last(h), frame_id)]
        ELSE [r EXCEPT !.curr_size_ = @ + 1, !.evictable_[frame_id] = TRUE,
                       !.incomplete_histories_ = MapPut(@, Last(h), frame_id)]
    ELSE IF r.evictable_[frame_id] /\ ~set_evictable THEN
      [r EXCEPT !.curr_size_ = @ - 1, !.evictable_[frame_id] = FALSE,
                !.complete_histories_ = MapErase(@, Last(h)),
                !.incomplete_histories_ = MapErase(@, Last(h))]
    ELSE [r EXCEPT !.evictable_[frame_id] = set_evictable]

ReplacerRemove_Indexed(r, frame_id) ==
  IF ~r.allocated_[frame_id] THEN [r |-> r, threw |-> FALSE]
  ELSE IF ~r.evictable_[frame_id] THEN [r |-> r, threw |-> TRUE]
  ELSE [r |-> RemoveInternal_Indexed(r, frame_id), threw |-> FALSE]

\* ------------------------------------------------------------------------
\* BUFFER POOL MANAGER.  b is the state of the pool, ret the frame a call
\* returns (null: nullptr) or its boolean result.
\* ------------------------------------------------------------------------
FreePage == [page_id_ |-> INVALID_PAGE_ID, pin_count_ |-> 0, is_dirty_ |-> FALSE, data_ |-> 0]

PoolInit(source, pool_size, replacer_k) ==
  [source |-> source,
   pages_ |-> [f \in 0..(pool_size - 1) |-> FreePage],
   free_list_ |-> [i \in 1..pool_size |-> i - 1],
   page_table_ |-> {},
   next_page_id_ |-> 0,
   replacer_ |-> ReplacerInit(pool_size, replacer_k),
   disk |-> [p \in PoolPageIds |-> 0],
   fault |-> "none"]

\* A Remove of the directory that leaves the entry in place.
TableRemove_Nothing(table, page_id) == table

\* page_table_->Find, Insert and Remove of the directory.
TableFind(table, page_id) == \E e \in table : e[1] = page_id
TableFrame(table, page_id) == (CHOOSE e \in table : e[1] = page_id)[2]
TableRemove(table, page_id) == {e \in table : e[1] # page_id}
TableInsert(table, page_id, frame_id) == TableRemove(table, page_id) \cup {<<page_id, frame_id>>}

NullFrame == [null |-> TRUE, frame_id |-> 0]
Frame(frame_id) == [null |-> FALSE, frame_id |-> frame_id]

\* The frame NewPgImp and FetchPgImp take: from the free list (its front in
\* buffer_pool_manager_instance.cpp, its back in part_006), else a victim of
\* the replacer, whose page leaves the directory.
AcquireFrame(b) ==
  IF b.free_list_ # <<>> THEN
    IF b.source = "part_006"
      THEN [ok |-> TRUE, frame_id |-> Last(b.free_list_),
            b |-> [b EXCEPT !.free_list_ = SubSeq(@, 1, Len(@) - 1)]]
      ELSE [ok |-> TRUE, frame_id |-> Head(b.free_list_),
            b |-> [b EXCEPT !.free_list_ = Tail(@)]]
  ELSE IF ReplacerSize(b.replacer_) > 0 THEN
    LET e == Evict(b.replacer_) IN
    [ok |-> TRUE, frame_id |-> e.frame_id,
     b |-> [b EXCEPT !.replacer_ = e.r,
                     !.page_table_ = TableRemove(@, b.pages_[e.frame_id].page_id_),
                     !.fault = IF e.undefined THEN "undefined" ELSE @]]
  ELSE [ok |-> FALSE, frame_id |-> 0, b |-> b]

\* A frame reused without the write-back of its dirty page.
WriteBack_Skipped(b, frame_id) == b

\* The write-back of a dirty frame that is about to be reused.
WriteBack(b, frame_id) ==
  IF b.pages_[frame_id].is_dirty_
    THEN [b EXCEPT !.disk[b.pages_[frame_id].page_id_] = b.pages_[frame_id].data_]
    ELSE b

\* The pin of a frame just acquired for page_id, holding the bytes data.
Install(b, frame_id, page_id, data) ==
  [b EXCEPT !.replacer_ = SetEvictable(RecordAccess(@, frame_id), frame_id, FALSE),
            !.page_table_ = TableInsert(@, page_id, frame_id),
            !.pages_[frame_id] = [page_id_ |-> page_id, pin_count_ |-> 1,
                                  is_dirty_ |-> FALSE, data_ |-> data]]

\* buffer_pool_manager_instance.cpp allocates the page id before it looks
\* for a frame, part_006 after it has found one.
NewPgImp(b) ==
  LET page_id == b.next_page_id_
      a == AcquireFrame(b)
  IN
  IF ~a.ok
    THEN [b |-> IF b.source = "part_006" THEN b ELSE [b EXCEPT !.next_page_id_ = @ + 1],
          ret |-> NullFrame, page_id |-> page_id]
    ELSE [b |-> Install([WriteBack(a.b, a.frame_id) EXCEPT !.next_page_id_ = @ + 1],
                        a.frame_id, page_id, 0),
          ret |-> Frame(a.frame_id), page_id |-> page_id]

FetchPgImp(b, page_id) ==
  IF TableFind(b.page_table_, page_id) THEN
    LET frame_id == TableFrame(b.page_table_, page_id)
        r1 == RecordAccess(b.replacer_, frame_id)
        r2 == IF b.pages_[frame_id].pin_count_ = 0 THEN SetEvictable(r1, frame_id, FALSE) ELSE r1
    IN [b |-> [b EXCEPT !.replacer_ = r2, !.pages_[frame_id].pin_count_ = @ + 1],
        ret |-> Frame(frame_id)]
  ELSE
    LET a == AcquireFrame(b) IN
    IF ~a.ok THEN [b |-> b, ret |-> NullFrame]
    ELSE LET w == WriteBack(a.b, a.frame_id)
         IN [b |-> Install(w, a.frame_id, page_id, w.disk[page_id]), ret |-> Frame(a.frame_id)]

\* UnpinPgImp that stores is_dirty whatever the flag was.
UnpinPgImp_DirtyOverwritten(b, page_id, is_dirty) ==
  IF ~TableFind(b.page_table_, page_id) THEN [b |-> b, ret |-> FALSE]
  ELSE
    LET frame_id == TableFrame(b.page_table_, page_id) IN
    IF b.pages_[frame_id].pin_count_ = 0 THEN [b |-> b, ret |-> FALSE]
    ELSE [b |-> [b EXCEPT
                   !.pages_[frame_id].pin_count_ = @ - 1,
                   !.replacer_ = IF b.pages_[frame_id].pin_count_ = 1
                                   THEN SetEvictable(@, frame_id, TRUE) ELSE @,
                   !.pages_[frame_id].is_dirty_ = is_dirty],
          ret |-> TRUE]

\* UnpinPgImp without the test for a pin count that is already 0.
UnpinPgImp_NoPinTest(b, page_id, is_dirty) ==
  IF ~TableFind(b.page_table_, page_id) THEN [b |-> b, ret |-> FALSE]
  ELSE
    LET frame_id == TableFrame(b.page_table_, page_id) IN
    [b |-> [b EXCEPT
              !.pages_[frame_id].pin_count_ = @ - 1,
              !.replacer_ = IF b.pages_[frame_id].pin_count_ = 1
                              THEN SetEvictable(@, frame_id, TRUE) ELSE @,
              !.pages_[frame_id].is_dirty_ = IF @ THEN @ ELSE is_dirty],
     ret |-> TRUE]

\* UnpinPgImp without the SetEvictable(frame_id, true) of a pin count that
\* has reached 0.
UnpinPgImp_NeverEvictable(b, page_id, is_dirty) ==
  IF ~TableFind(b.page_table_, page_id) THEN [b |-> b, ret |-> FALSE]
  ELSE
    LET frame_id == TableFrame(b.page_table_, page_id) IN
    IF b.pages_[frame_id].pin_count_ = 0 THEN [b |-> b, ret |-> FALSE]
    ELSE [b |-> [b EXCEPT
                   !.pages_[frame_id].pin_count_ = @ - 1,
                   !.pages_[frame_id].is_dirty_ = IF @ THEN @ ELSE is_dirty],
          ret |-> TRUE]

UnpinPgImp(b, page_id, is_dirty) ==
  IF ~TableFind(b.page_table_, page_id) THEN [b |-> b, ret |-> FALSE]
  ELSE
    LET frame_id == TableFrame(b.page_table_, page_id) IN
    IF b.pages_[frame_id].pin_count_ = 0 THEN [b |-> b, ret |-> FALSE]
    ELSE [b |-> [b EXCEPT
                   !.pages_[frame_id].pin_count_ = @ - 1,
                   !.replacer_ = IF b.pages_[frame_id].pin_count_ = 1
                                   THEN SetEvictable(@, frame_id, TRUE) ELSE @,
                   !.pages_[frame_id].is_dirty_ = IF @ THEN @ ELSE is_dirty],
          ret |-> TRUE]

\* FlushPgImp that writes the page and leaves is_dirty_ as it was.
FlushPgImp_KeepsDirty(b, page_id) ==
  IF ~TableFind(b.page_table_, page_id) THEN [b |-> b, ret |-> FALSE]
  ELSE
    LET frame_id == TableFrame(b.page_table_, page_id) IN
    [b |-> [b EXCEPT !.disk[page_id] = b.pages_[frame_id].data_], ret |-> TRUE]

FlushPgImp(b, page_id) ==
  IF ~TableFind(b.page_table_, page_id) THEN [b |-> b, ret |-> FALSE]
  ELSE
    LET frame_id == TableFrame(b.page_table_, page_id) IN
    [b |-> [b EXCEPT !.disk[page_id] = b.pages_[frame_id].data_,
                     !.pages_[frame_id].is_dirty_ = FALSE],
     ret |-> TRUE]

FlushAllPgsImp(b) ==
  LET held == {f \in DOMAIN b.pages_ : b.pages_[f].page_id_ # INVALID_PAGE_ID} IN
  [b EXCEPT !.disk = [p \in DOMAIN b.disk |->
                        IF \E f \in held : b.pages_[f].page_id_ = p
                          THEN b.pages_[CHOOSE f \in held : b.pages_[f].page_id_ = p].data_
                          ELSE b.disk[p]],
            !.pages_ = [f \in DOMAIN b.pages_ |->
                          IF f \in held THEN [b.pages_[f] EXCEPT !.is_dirty_ = FALSE]
                          ELSE b.pages_[f]]]

DeletePgImp(b, page_id) ==
  IF ~TableFind(b.page_table_, page_id) THEN [b |-> b, ret |-> TRUE]
  ELSE
    LET frame_id == TableFrame(b.page_table_, page_id) IN
    IF b.pages_[frame_id].pin_count_ # 0 THEN [b |-> b, ret |-> FALSE]
    ELSE
      LET rem == ReplacerRemove(b.replacer_, frame_id) IN
      IF rem.threw
        THEN [b |-> [b EXCEPT !.page_table_ = TableRemove(@, page_id), !.fault = "exception"],
              ret |-> FALSE]
        ELSE [b |-> [b EXCEPT !.page_table_ = TableRemove(@, page_id),
                             !.replacer_ = rem.r,
                             !.free_list_ = Append(@, frame_id),
                             !.pages_[frame_id] = FreePage],
              ret |-> TRUE]

\* ------------------------------------------------------------------------
\* Threads and latches of the tree
\* ------------------------------------------------------------------------
NoCall == [op |-> "none", key |-> 0, value |-> 0, ret |-> FALSE, present |-> FALSE]

Threads == 1..NumThreads

\* The threads insert from pairwise disjoint sets of keys.
ThreadKeys(t) == {k \in Keys : (k % NumThreads) + 1 = t}

\* The value a thread stores with a key.
ValueOf(key) == (key % MaxVal) + 1

Unlocked == [writer |-> 0, readers |-> {}]
CanLock(latch) == latch.writer = 0 /\ latch.readers = {}
CanLockShared(latch) == latch.writer = 0

NoResult == [op |-> "none", ok |-> FALSE, value |-> 0, status |-> "ok", page_id |-> 0]
Result(op, ok, value, status, page_id) ==
  [op |-> op, ok |-> ok, value |-> value, status |-> status, page_id |-> page_id]

InitThreads ==
  /\ pc = [t \in Threads |-> "idle"]
  /\ call = [t \in Threads |-> NoCall]
  /\ path = [t \in Threads |-> <<>>]
  /\ root_page_id_guard_ = Unlocked
  /\ global_latch_ = Unlocked
  /\ ret = [t \in Threads |-> NoResult]
  /\ in_write = [t \in Threads |-> FALSE]
  /\ overlap = FALSE
  /\ only_inserts = TRUE

\* ------------------------------------------------------------------------
\* The buffer pool: state, calls and specification
\* ------------------------------------------------------------------------
B == [source |-> pool_source, pages_ |-> pages_, free_list_ |-> free_list_,
      page_table_ |-> page_table_, next_page_id_ |-> next_page_id_,
      replacer_ |-> replacer_, disk |-> disk, fault |-> fault]

SetPool(b) ==
  /\ pages_' = b.pages_
  /\ free_list_' = b.free_list_
  /\ page_table_' = b.page_table_
  /\ next_page_id_' = b.next_page_id_
  /\ replacer_' = b.replacer_
  /\ disk' = b.disk
  /\ fault' = b.fault

NoPoolCall == [op |-> "none", page_id |-> INVALID_PAGE_ID, null |-> FALSE, ok |-> FALSE,
               resident |-> FALSE, free |-> FALSE, acquirable |-> FALSE]

\* The pool as its constructor leaves it (lines 20-33).
InitPool(source, pool_size, replacer_k) ==
  LET b == PoolInit(source, pool_size, replacer_k) IN
  /\ pool_source = source
  /\ pool_size_ = pool_size
  /\ pages_ = b.pages_
  /\ free_list_ = b.free_list_
  /\ page_table_ = b.page_table_
  /\ next_page_id_ = b.next_page_id_
  /\ replacer_ = b.replacer_
  /\ disk = b.disk
  /\ fault = b.fault
  /\ pool_last = NoPoolCall
  /\ null_seen = FALSE
  /\ page_hist = [p \in PoolPageIds |-> [committed |-> 0, unreported |-> FALSE,
                                         deleted |-> FALSE]]
  /\ pool_nops = 0

\* What a call finds: is page_id resident, is the free list non-empty, and
\* is there a frame to take (a free one, or a resident one nobody pins).
PoolCall(op, page_id, null, ok) ==
  [op |-> op, page_id |-> page_id, null |-> null, ok |-> ok,
   resident |-> TableFind(page_table_, page_id),
   free |-> free_list_ # <<>>,
   acquirable |-> \/ free_list_ # <<>>
                  \/ \E e \in page_table_ : pages_[e[2]].pin_count_ = 0]

\* The bytes of the resident pages in pgs become the bytes last reported.
Commit(hist, pgs) ==
  [p \in DOMAIN hist |->
     IF p \in pgs
       THEN [hist[p] EXCEPT !.committed = pages_[TableFrame(page_table_, p)].data_,
                           !.unreported = FALSE]
       ELSE hist[p]]

PoolStep(b, result, hist) ==
  /\ fault = "none"
  /\ pool_nops < MaxPoolOps
  /\ SetPool(b)
  /\ pool_last' = result
  /\ page_hist' = hist
  /\ pool_nops' = pool_nops + 1
  /\ UNCHANGED <<pool_source, pool_size_, treeVars, threadVars, replacerVars, hashVars, callVars>>

PoolNewPage ==
  /\ next_page_id_ <= MaxPoolPage
  /\ LET r == NewPgImp(B) IN
       /\ PoolStep(r.b, PoolCall("NewPage", r.page_id, r.ret.null, ~r.ret.null), page_hist)
       /\ null_seen' = (null_seen \/ r.ret.null)

PoolFetchPage(page_id) ==
  /\ page_id < next_page_id_
  /\ LET r == FetchPgImp(B, page_id) IN
       PoolStep(r.b, PoolCall("FetchPage", page_id, r.ret.null, ~r.ret.null), page_hist)
  /\ UNCHANGED null_seen

PoolUnpinPage(page_id, is_dirty) ==
  /\ page_id < next_page_id_
  /\ LET r == UnpinPgImp(B, page_id, is_dirty) IN
       PoolStep(r.b, PoolCall("UnpinPage", page_id, FALSE, r.ret),
                IF r.ret /\ is_dirty THEN Commit(page_hist, {page_id}) ELSE page_hist)
  /\ UNCHANGED null_seen

PoolFlushPage(page_id) ==
  /\ page_id < next_page_id_
  /\ LET r == FlushPgImp(B, page_id) IN
       PoolStep(r.b, PoolCall("FlushPage", page_id, FALSE, r.ret),
                IF r.ret THEN Commit(page_hist, {page_id}) ELSE page_hist)
  /\ UNCHANGED null_seen

PoolFlushAllPages ==
  /\ PoolStep(FlushAllPgsImp(B), PoolCall("FlushAllPages", INVALID_PAGE_ID, FALSE, TRUE),
              Commit(page_hist, {e[1] : e \in page_table_}))
  /\ UNCHANGED null_seen

PoolDeletePage(page_id) ==
  /\ page_id < next_page_id_
  /\ LET r == DeletePgImp(B, page_id) IN
       PoolStep(r.b, PoolCall("DeletePage", page_id, FALSE, r.ret),
                IF r.ret /\ TableFind(page_table_, page_id)
                  THEN [page_hist EXCEPT ![page_id].deleted = TRUE] ELSE page_hist)
  /\ UNCHANGED null_seen

\* The holder of a pin writes the bytes of its page.
PoolWriteData(page_id, data) ==
  /\ fault = "none"
  /\ TableFind(page_table_, page_id)
  /\ LET frame_id == TableFrame(page_table_, page_id) IN
       /\ pages_[frame_id].pin_count_ > 0
       /\ pages_[frame_id].data_ # data
       /\ pages_' = [pages_ EXCEPT ![frame_id].data_ = data]
  /\ page_hist' = [page_hist EXCEPT ![page_id].unreported = TRUE]
  /\ UNCHANGED <<pool_source, pool_size_, free_list_, page_table_, next_page_id_,
                 replacer_, disk, fault, pool_last, null_seen, pool_nops,
                 treeVars, threadVars, replacerVars, hashVars, callVars>>

NextBufferPool ==
  \/ PoolNewPage
  \/ \E page_id \in PoolPageIds : PoolFetchPage(page_id)
  \/ \E page_id \in PoolPageIds, is_dirty \in BOOLEAN : PoolUnpinPage(page_id, is_dirty)
  \/ \E page_id \in PoolPageIds : PoolFlushPage(page_id)
  \/ PoolFlushAllPages
  \/ \E page_id \in PoolPageIds : PoolDeletePage(page_id)
  \/ \E page_id \in PoolPageIds, data \in DataValues : PoolWriteData(page_id, data)

\* ------------------------------------------------------------------------
\* The buffer pool of buffer_pool_manager_instance.cpp called by several
\* threads.  NewPgImp and FetchPgImp choose their frame under global_latch_,
\* take the frame's latch, release global_latch_ and only then write the
\* frame's old page back, read the new one and set the frame's metadata.
\* A thread that waits for a frame's latch while it holds global_latch_ has
\* changed nothing another thread can see, so its step is taken when the
\* latch is free.
\* ------------------------------------------------------------------------
PoolThreads == 1..NumThreads

NoIo == [op |-> "none", page_id |-> INVALID_PAGE_ID, frame_id |-> 0]

\* The replacers of part_005 and part_004 before their first call.
NoPairCall == [op |-> "none", frame_id |-> 0,
               scan |-> [ok |-> FALSE, frame_id |-> 0, threw |-> FALSE, undefined |-> FALSE],
               indexed |-> [ok |-> FALSE, frame_id |-> 0, threw |-> FALSE, undefined |-> FALSE]]

InitPair(num_frames, k) ==
  lru_pair = [scan |-> ReplacerInit(num_frames, k),
              indexed |-> ReplacerInit_Indexed(num_frames, k),
              last |-> NoPairCall, nops |-> 0]

NoIterator == [live |-> FALSE, page_id_ |-> INVALID_PAGE_ID, index_ |-> 0, op |-> "none"]

InitOtherCalls ==
  /\ pool_io = [t \in PoolThreads |-> NoIo]
  /\ iter = NoIterator
  /\ client_pin = [p \in PageSlots |-> 0]
  /\ ht_io = [t \in PoolThreads |-> [op |-> "none", key |-> 0, value |-> 0]]

InitCalls ==
  /\ InitOtherCalls
  /\ InitPair(1, 1)

\* local_latches_[frame_id] is held by the call that is reusing the frame.
LocalLatchHeld(frame_id) ==
  \E t \in PoolThreads : pool_io[t].op # "none" /\ pool_io[t].frame_id = frame_id

\* NewPgImp lines 46-60, FetchPgImp lines 88-101: under global_latch_ the
\* frame is taken and entered in the replacer and the directory; pages_ is
\* not touched.
TakeFrame(b, page_id) ==
  LET a == AcquireFrame(b) IN
  IF ~a.ok THEN [ok |-> FALSE, frame_id |-> 0, b |-> b]
  ELSE [ok |-> TRUE, frame_id |-> a.frame_id,
        b |-> [a.b EXCEPT
                 !.replacer_ = SetEvictable(RecordAccess(@, a.frame_id), a.frame_id, FALSE),
                 !.page_table_ = TableInsert(@, page_id, a.frame_id)]]

\* NewPgImp lines 65-71, FetchPgImp lines 106-112: under the frame's latch
\* the old page is written back if dirty, the frame is zeroed (NewPgImp) or
\* read from disk (FetchPgImp, read = TRUE), and its metadata is set.
ReuseFrame(b, frame_id, page_id, read) ==
  LET w == WriteBack(b, frame_id) IN
  [w EXCEPT !.pages_[frame_id] = [page_id_ |-> page_id, pin_count_ |-> 1,
                                  is_dirty_ |-> FALSE,
                                  data_ |-> IF read THEN w.disk[page_id] ELSE 0]]

IoStep(t, b, io, result, hist, started) ==
  /\ fault = "none"
  /\ SetPool(b)
  /\ pool_io' = [pool_io EXCEPT ![t] = io]
  /\ pool_last' = result
  /\ page_hist' = hist
  /\ pool_nops' = pool_nops + started
  /\ UNCHANGED <<pool_source, pool_size_, null_seen, treeVars, threadVars, replacerVars,
                 hashVars, iter, client_pin, ht_io, lru_pair>>

\* NewPgImp up to the release of global_latch_ (lines 44-63).
ThreadNewPage(t) ==
  /\ pool_io[t].op = "none"
  /\ pool_nops < MaxPoolOps
  /\ next_page_id_ <= MaxPoolPage
  /\ LET page_id == next_page_id_
         a == TakeFrame([B EXCEPT !.next_page_id_ = @ + 1], page_id)
     IN
     IF ~a.ok
       THEN IoStep(t, a.b, NoIo, PoolCall("NewPage", page_id, TRUE, FALSE), page_hist, 1)
       ELSE /\ ~LocalLatchHeld(a.frame_id)
            /\ IoStep(t, a.b, [op |-> "NewPage", page_id |-> page_id, frame_id |-> a.frame_id],
                      pool_last, page_hist, 1)

\* FetchPgImp up to its return (page resident, lines 78-87; no frame, line
\* 96) or up to the release of global_latch_ (lines 88-104).
ThreadFetchPage(t, page_id) ==
  /\ pool_io[t].op = "none"
  /\ pool_nops < MaxPoolOps
  /\ page_id < next_page_id_
  /\ IF TableFind(page_table_, page_id)
       THEN /\ ~LocalLatchHeld(TableFrame(page_table_, page_id))
            /\ IoStep(t, FetchPgImp(B, page_id).b, NoIo,
                      PoolCall("FetchPage", page_id, FALSE, TRUE), page_hist, 1)
       ELSE LET a == TakeFrame(B, page_id) IN
            IF ~a.ok
              THEN IoStep(t, a.b, NoIo, PoolCall("FetchPage", page_id, TRUE, FALSE),
                          page_hist, 1)
              ELSE /\ ~LocalLatchHeld(a.frame_id)
                   /\ IoStep(t, a.b,
                             [op |-> "FetchPage", page_id |-> page_id, frame_id |-> a.frame_id],
                             pool_last, page_hist, 1)

\* The rest of NewPgImp (lines 65-73) or FetchPgImp (lines 106-114).
ThreadReuseFrame(t) ==
  /\ pool_io[t].op # "none"
  /\ IoStep(t, ReuseFrame(B, pool_io[t].frame_id, pool_io[t].page_id,
                          pool_io[t].op = "FetchPage"),
            NoIo, PoolCall(pool_io[t].op, pool_io[t].page_id, FALSE, TRUE), page_hist, 0)

\* UnpinPgImp (lines 117-138); it waits for the latch of the page's frame.
ThreadUnpinPage(t, page_id, is_dirty) ==
  /\ pool_io[t].op = "none"
  /\ pool_nops < MaxPoolOps
  /\ page_id < next_page_id_
  /\ TableFind(page_table_, page_id) => ~LocalLatchHeld(TableFrame(page_table_, page_id))
  /\ LET r == UnpinPgImp(B, page_id, is_dirty) IN
       IoStep(t, r.b, NoIo, PoolCall("UnpinPage", page_id, FALSE, r.ret),
              IF r.ret /\ is_dirty THEN Commit(page_hist, {page_id}) ELSE page_hist, 1)

\* The holder of a pin writes the bytes of its page.
ThreadWriteData(page_id, data) ==
  /\ PoolWriteData(page_id, data)
  /\ ~LocalLatchHeld(TableFrame(page_table_, page_id))

NextPoolThreads ==
  \/ \E t \in PoolThreads : ThreadNewPage(t)
  \/ \E t \in PoolThreads, page_id \in PoolPageIds : ThreadFetchPage(t, page_id)
  \/ \E t \in PoolThreads : ThreadReuseFrame(t)
  \/ \E t \in PoolThreads, page_id \in PoolPageIds, is_dirty \in BOOLEAN :
       ThreadUnpinPage(t, page_id, is_dirty)
  \/ \E page_id \in PoolPageIds, data \in DataValues : ThreadWriteData(page_id, data)

\* ------------------------------------------------------------------------
\* The LRU-K replacer on its own: state, calls and specification
\* ------------------------------------------------------------------------
NoLruCall == [op |-> "none", frame_id |-> 0, set_evictable |-> FALSE, ok |-> FALSE,
              threw |-> FALSE, undefined |-> FALSE]

InitReplacer(source, num_frames, k) ==
  /\ lru_source = source
  /\ lru = IF source = "part_004" THEN ReplacerInit_Indexed(num_frames, k)
           ELSE ReplacerInit(num_frames, k)
  /\ lru_last = NoLruCall
  /\ lru_nops = 0
  /\ lru_script = [pos |-> 0, marked |-> {}, evicted |-> <<>>, threw |-> FALSE]

LruStep(r, result) ==
  /\ ~lru_last.undefined
  /\ lru_nops < MaxLruOps
  /\ lru' = r
  /\ lru_last' = result
  /\ lru_nops' = lru_nops + 1
  /\ UNCHANGED <<lru_source, lru_script, treeVars, threadVars, poolVars, hashVars, callVars>>

\* The calls as a caller sees them: RecordAccess and SetEvictable throw on
\* an invalid frame id, Remove returns.
CallRecordAccess(frame_id) ==
  IF ~IsValidFrameId(lru, frame_id) THEN [r |-> lru, threw |-> TRUE]
  ELSE [r |-> IF lru_source = "part_004" THEN RecordAccess_Indexed(lru, frame_id)
              ELSE RecordAccess(lru, frame_id),
        threw |-> FALSE]

CallSetEvictable(frame_id, set_evictable) ==
  IF ~IsValidFrameId(lru, frame_id) THEN [r |-> lru, threw |-> TRUE]
  ELSE [r |-> IF lru_source = "part_004" THEN SetEvictable_Indexed(lru, frame_id, set_evictable)
              ELSE SetEvictable(lru, frame_id, set_evictable),
        threw |-> FALSE]

CallRemove(frame_id) ==
  IF ~IsValidFrameId(lru, frame_id) THEN [r |-> lru, threw |-> FALSE]
  ELSE IF lru_source = "part_004" THEN ReplacerRemove_Indexed(lru, frame_id)
  ELSE ReplacerRemove(lru, frame_id)

CallEvict == IF lru_source = "part_004" THEN Evict_Indexed(lru) ELSE Evict(lru)

LruRecordAccess(frame_id) ==
  LET c == CallRecordAccess(frame_id) IN
  LruStep(c.r, [NoLruCall EXCEPT !.op = "RecordAccess", !.frame_id = frame_id,
                                 !.threw = c.threw])

LruSetEvictable(frame_id, set_evictable) ==
  LET c == CallSetEvictable(frame_id, set_evictable) IN
  LruStep(c.r, [NoLruCall EXCEPT !.op = "SetEvictable", !.frame_id = frame_id,
                                 !.set_evictable = set_evictable, !.threw = c.threw])

LruRemove(frame_id) ==
  LET c == CallRemove(frame_id) IN
  LruStep(c.r, [NoLruCall EXCEPT !.op = "Remove", !.frame_id = frame_id,
                                 !.threw = c.threw])

LruEvict ==
  LET e == CallEvict
  IN LruStep(e.r, [NoLruCall EXCEPT !.op = "Evict", !.frame_id = e.frame_id, !.ok = e.ok,
                                    !.undefined = e.undefined])

NextReplacer ==
  \/ \E frame_id \in ReplacerArgs : LruRecordAccess(frame_id)
  \/ \E frame_id \in ReplacerArgs, set_evictable \in BOOLEAN :
       LruSetEvictable(frame_id, set_evictable)
  \/ \E frame_id \in ReplacerArgs : LruRemove(frame_id)
  \/ LruEvict

\* RecordAccess and SetEvictable of a negative frame id, which IsValidFrameId
\* lets through: allocated_[frame_id] and history_[frame_id] then index the
\* vectors out of range.  The call may end the process, return having read
\* allocated_ as false, or go on to advance current_timestamp_ (RecordAccess)
\* or to change curr_size_ (SetEvictable); it does not throw.
UndefinedRecordAccess(r) == {r, [r EXCEPT !.current_timestamp_ = @ + 1]}

UndefinedSetEvictable(r, set_evictable) ==
  {r} \cup (IF set_evictable THEN {[r EXCEPT !.curr_size_ = @ + 1]}
            ELSE IF r.curr_size_ > 0 THEN {[r EXCEPT !.curr_size_ = @ - 1]}
            ELSE {})

LruRecordAccessNegative(frame_id) ==
  /\ IsValidFrameId(lru, frame_id)
  /\ \E r \in UndefinedRecordAccess(lru) :
       LruStep(r, [NoLruCall EXCEPT !.op = "RecordAccess", !.frame_id = frame_id,
                                    !.undefined = TRUE])

LruSetEvictableNegative(frame_id, set_evictable) ==
  /\ IsValidFrameId(lru, frame_id)
  /\ \E r \in UndefinedSetEvictable(lru, set_evictable) :
       LruStep(r, [NoLruCall EXCEPT !.op = "SetEvictable", !.frame_id = frame_id,
                                    !.set_evictable = set_evictable, !.undefined = TRUE])

NextReplacerArgs ==
  \/ NextReplacer
  \/ \E frame_id \in NegativeArgs : LruRecordAccessNegative(frame_id)
  \/ \E frame_id \in NegativeArgs, set_evictable \in BOOLEAN :
       LruSetEvictableNegative(frame_id, set_evictable)

\* The scripted accesses of scenario S4: RecordAccess of the frames of
\* S4Accesses in order; SetEvictable(f, true) of each frame once, any time
\* after its first access; then two Evicts.  A call that throws is caught
\* and the script goes on.
S4Accesses == <<1, 1, 2, 3, 4, 2, 3, 1>>
S4Frames == {S4Accesses[i] : i \in DOMAIN S4Accesses}
S4Sizes == {4, 5}

S4Step(r, result, script) ==
  /\ lru' = r
  /\ lru_last' = result
  /\ lru_script' = script
  /\ UNCHANGED <<lru_source, lru_nops, treeVars, threadVars, poolVars, hashVars, callVars>>

S4RecordAccess ==
  /\ lru_script.pos < Len(S4Accesses)
  /\ LET frame_id == S4Accesses[lru_script.pos + 1]
         c == CallRecordAccess(frame_id)
     IN S4Step(c.r, [NoLruCall EXCEPT !.op = "RecordAccess", !.frame_id = frame_id,
                                      !.threw = c.threw],
               [lru_script EXCEPT !.pos = @ + 1, !.threw = @ \/ c.threw])

S4SetEvictable(frame_id) ==
  /\ frame_id \notin lru_script.marked
  /\ \E i \in 1..lru_script.pos : S4Accesses[i] = frame_id
  /\ LET c == CallSetEvictable(frame_id, TRUE)
     IN S4Step(c.r, [NoLruCall EXCEPT !.op = "SetEvictable", !.frame_id = frame_id,
                                      !.set_evictable = TRUE, !.threw = c.threw],
               [lru_script EXCEPT !.marked = @ \cup {frame_id}, !.threw = @ \/ c.threw])

S4Evict ==
  /\ lru_script.pos = Len(S4Accesses)
  /\ lru_script.marked = S4Frames
  /\ Len(lru_script.evicted) < 2
  /\ ~lru_last.undefined
  /\ LET e == CallEvict
     IN S4Step(e.r, [NoLruCall EXCEPT !.op = "Evict", !.frame_id = e.frame_id, !.ok = e.ok,
                                      !.undefined = e.undefined],
               [lru_script EXCEPT !.evicted = Append(@, IF e.ok THEN e.frame_id ELSE -1)])

NextS4 ==
  \/ S4RecordAccess
  \/ \E frame_id \in S4Frames : S4SetEvictable(frame_id)
  \/ S4Evict

\* ------------------------------------------------------------------------
\* EXTENDIBLE HASH TABLE (part_003).  dir_[i + 1] is slot i of the directory
\* and holds the identity of a bucket: its position in buckets, which lists
\* the buckets in the order make_shared created them.  list_ is the bucket's
\* std::list of <<key, value>> pairs.
\* ------------------------------------------------------------------------
RECURSIVE Pow2(_)
Pow2(n) == IF n = 0 THEN 1 ELSE 2 * Pow2(n - 1)

\* Bucket::Bucket(array_size, depth)
NewBucket(array_size, depth) == [size_ |-> array_size, depth_ |-> depth, list_ |-> <<>>]

\* ExtendibleHashTable(bucket_size)
HashTableInit(source, bucket_size) ==
  [source |-> source, global_depth_ |-> 0, bucket_size_ |-> bucket_size,
   num_buckets_ |-> 1, dir_ |-> <<1>>, buckets |-> <<NewBucket(bucket_size, 0)>>]

\* std::hash<K>()(key) & ((1 << global_depth_) - 1); the keys are ints that
\* are not negative, which std::hash maps to themselves.
IndexOf(t, key) == key % Pow2(t.global_depth_)

GetGlobalDepth(t) == t.global_depth_
GetLocalDepth(t, dir_index) == t.buckets[t.dir_[dir_index + 1]].depth_
GetNumBuckets(t) == t.num_buckets_

\* Bucket::IsFull() of extendible_hash_table.h
IsFull(bucket) == Len(bucket.list_) = bucket.size_

\* The positions of key in the list of a bucket.
Positions(bucket, key) == {i \in 1..Len(bucket.list_) : bucket.list_[i][1] = key}

BucketFind(bucket, key) ==
  IF Positions(bucket, key) = {} THEN [found |-> FALSE, value |-> 0]
  ELSE [found |-> TRUE, value |-> bucket.list_[SetMin(Positions(bucket, key))][2]]

BucketRemove(bucket, key) ==
  IF Positions(bucket, key) = {} THEN [bucket |-> bucket, ok |-> FALSE]
  ELSE LET it == SetMin(Positions(bucket, key))
       IN [bucket |-> [bucket EXCEPT !.list_ = SubSeq(@, 1, it - 1) \o
                                              SubSeq(@, it + 1, Len(@))],
           ok |-> TRUE]

BucketInsert(bucket, key, value) ==
  IF IsFull(bucket) THEN [bucket |-> bucket, ok |-> FALSE]
  ELSE IF Positions(bucket, key) # {}
  THEN [bucket |-> [bucket EXCEPT !.list_[SetMin(Positions(bucket, key))] = <<key, value>>],
        ok |-> TRUE]
  ELSE [bucket |-> [bucket EXCEPT !.list_ = Append(@, <<key, value>>)], ok |-> TRUE]

ExtendibleFind(t, key) == BucketFind(t.buckets[t.dir_[IndexOf(t, key) + 1]], key)

ExtendibleRemove(t, key) ==
  LET b == t.dir_[IndexOf(t, key) + 1]
      removed == BucketRemove(t.buckets[b], key)
  IN [t |-> [t EXCEPT !.buckets[b] = removed.bucket], ok |-> removed.ok]

\* for (i = index; i < (1 << global_depth_); i += step, turn = !turn)
RECURSIVE AssignUpward(_, _, _, _, _, _, _)
AssignUpward(dir, i, turn, step, limit, old_bucket, new_bucket) ==
  IF i >= limit THEN dir
  ELSE AssignUpward([dir EXCEPT ![i + 1] = IF turn THEN new_bucket ELSE old_bucket],
                    i + step, ~turn, step, limit, old_bucket, new_bucket)

\* for (i = index; i >= 0; i -= step, turn = !turn)
RECURSIVE AssignDownward(_, _, _, _, _, _)
AssignDownward(dir, i, turn, step, old_bucket, new_bucket) ==
  IF i < 0 THEN dir
  ELSE AssignDownward([dir EXCEPT ![i + 1] = IF turn THEN new_bucket ELSE old_bucket],
                      i - step, ~turn, step, old_bucket, new_bucket)

\* The directory with only the slot half a directory away from index
\* handed to the new bucket.
SplitDirectory_OtherHalf(dir, index, step, limit, old_bucket, new_bucket) ==
  LET other_index == IF index < limit \div 2 THEN index + limit \div 2
                     ELSE index - limit \div 2
  IN [dir EXCEPT ![other_index + 1] = new_bucket]

\* The two loops of InsertInternal that hand the slots of the old bucket
\* alternately to the old and the new bucket.
SplitDirectory(dir, index, step, limit, old_bucket, new_bucket) ==
  AssignDownward(AssignUpward(dir, index, FALSE, step, limit, old_bucket, new_bucket),
                 index, FALSE, step, old_bucket, new_bucket)

\* for (auto &p : items) { old_bucket->Remove(...); dir_[IndexOf(...)]->Insert(...) }
RECURSIVE Redistribute(_, _, _)
Redistribute(t, items, old_bucket) ==
  IF items = <<>> THEN t
  ELSE LET p == Head(items)
           removed == [t EXCEPT !.buckets[old_bucket] = BucketRemove(@, p[1]).bucket]
           target == removed.dir_[IndexOf(removed, p[1]) + 1]
           inserted == [removed EXCEPT !.buckets[target] = BucketInsert(@, p[1], p[2]).bucket]
       IN Redistribute(inserted, Tail(items), old_bucket)

\* InsertInternal(key, value, resizable).  The keys are below 2^MaxDepth, so
\* a full bucket of depth MaxDepth holds no key but the one being inserted:
\* no split makes room for it and the recursion does not end (diverged).
RECURSIVE ExtendibleInsertInternal(_, _, _, _)
ExtendibleInsertInternal(t, key, value, resizable) ==
  LET index == IndexOf(t, key)
      b == t.dir_[index + 1]
      ins == BucketInsert(t.buckets[b], key, value)
  IN IF ins.ok
     THEN [t |-> [t EXCEPT !.buckets[b] = ins.bucket], ok |-> TRUE, diverged |-> FALSE]
     ELSE IF ~resizable THEN [t |-> t, ok |-> FALSE, diverged |-> FALSE]
     ELSE IF t.buckets[b].depth_ = t.global_depth_ /\ t.global_depth_ = MaxDepth
     THEN [t |-> t, ok |-> FALSE, diverged |-> TRUE]
     ELSE LET doubled == IF t.buckets[b].depth_ = t.global_depth_
                         THEN [t EXCEPT !.global_depth_ = @ + 1, !.dir_ = @ \o @]
                         ELSE t
              old_bucket == doubled.dir_[index + 1]
              old_depth == doubled.buckets[old_bucket].depth_
              new_bucket == Len(doubled.buckets) + 1
              step == Pow2(old_depth)
              split == [doubled EXCEPT
                          !.buckets = Append(@, NewBucket(doubled.bucket_size_, old_depth)),
                          !.dir_ = SplitDirectory(@, index, step, Pow2(doubled.global_depth_),
                                                  old_bucket, new_bucket)]
              items == split.buckets[split.dir_[index + 1]].list_
              moved == Redistribute(split, items, old_bucket)
              deeper == [moved EXCEPT !.buckets[old_bucket].depth_ = @ + 1,
                                      !.buckets[new_bucket].depth_ = @ + 1,
                                      !.num_buckets_ = @ + 1]
          IN ExtendibleInsertInternal(deeper, key, value, resizable)

\* Insert(key, value): under global_latch_ it first tries without resizing
\* (lines 84-93); under latch_ it calls InsertInternal at once (291-295).
ExtendibleInsert(t, key, value) ==
  IF t.source = "latch_" THEN ExtendibleInsertInternal(t, key, value, TRUE)
  ELSE LET is_inserted == ExtendibleInsertInternal(t, key, value, FALSE)
       IN IF is_inserted.ok THEN is_inserted
          ELSE ExtendibleInsertInternal(t, key, value, TRUE)

\* ------------------------------------------------------------------------
\* The two LRU-K replacers side by side: the replacer of part_005 (scan) and
\* the one of part_004 (indexed) receive the same calls with valid frame ids.
\* ------------------------------------------------------------------------
PairResult(ok, frame_id, threw, undefined) ==
  [ok |-> ok, frame_id |-> frame_id, threw |-> threw, undefined |-> undefined]

PairStep(scan, indexed, op, frame_id, scan_result, indexed_result) ==
  /\ lru_pair.nops < MaxLruOps
  /\ ~lru_pair.last.scan.undefined /\ ~lru_pair.last.indexed.undefined
  /\ lru_pair' = [scan |-> scan, indexed |-> indexed,
                  last |-> [op |-> op, frame_id |-> frame_id, scan |-> scan_result,
                            indexed |-> indexed_result],
                  nops |-> lru_pair.nops + 1]
  /\ UNCHANGED <<treeVars, threadVars, poolVars, replacerVars, hashVars, pool_io, iter,
                 client_pin, ht_io>>

PairRecordAccess(frame_id) ==
  PairStep(RecordAccess(lru_pair.scan, frame_id),
           RecordAccess_Indexed(lru_pair.indexed, frame_id),
           "RecordAccess", frame_id,
           PairResult(TRUE, 0, FALSE, FALSE), PairResult(TRUE, 0, FALSE, FALSE))

PairSetEvictable(frame_id, set_evictable) ==
  PairStep(SetEvictable(lru_pair.scan, frame_id, set_evictable),
           SetEvictable_Indexed(lru_pair.indexed, frame_id, set_evictable),
           "SetEvictable", frame_id,
           PairResult(TRUE, 0, FALSE, FALSE), PairResult(TRUE, 0, FALSE, FALSE))

PairRemove(frame_id) ==
  LET s == ReplacerRemove(lru_pair.scan, frame_id)
      x == ReplacerRemove_Indexed(lru_pair.indexed, frame_id)
  IN PairStep(s.r, x.r, "Remove", frame_id,
              PairResult(TRUE, 0, s.threw, FALSE), PairResult(TRUE, 0, x.threw, FALSE))

PairEvict ==
  LET s == Evict(lru_pair.scan)
      x == Evict_Indexed(lru_pair.indexed)
  IN PairStep(s.r, x.r, "Evict", 0,
              PairResult(s.ok, s.frame_id, FALSE, s.undefined),
              PairResult(x.ok, x.frame_id, FALSE, x.undefined))

NextReplacerPair ==
  \/ \E frame_id \in ReplacerFrames : PairRecordAccess(frame_id)
  \/ \E frame_id \in ReplacerFrames, set_evictable \in BOOLEAN :
       PairSetEvictable(frame_id, set_evictable)
  \/ \E frame_id \in ReplacerFrames : PairRemove(frame_id)
  \/ PairEvict

\* ------------------------------------------------------------------------
\* The extendible hash table on its own: state, calls and specification
\* ------------------------------------------------------------------------
NoHashCall == [op |-> "none", key |-> 0, value |-> 0, ok |-> FALSE, present |-> FALSE,
               full |-> FALSE, diverged |-> FALSE, before |-> <<>>]

InitHashTable(source, bucket_size) ==
  /\ ht = HashTableInit(source, bucket_size)
  /\ ht_kv = [k \in HashKeys |-> 0]
  /\ ht_last = NoHashCall
  /\ ht_nops = 0

\* A call of the table; no call is made after one that did not return.
HashStep(t, result, stored) ==
  /\ ~ht_last.diverged
  /\ ht_nops < MaxHashOps
  /\ ht' = t
  /\ ht_last' = result
  /\ ht_kv' = IF result.diverged THEN ht_kv ELSE stored
  /\ ht_nops' = ht_nops + 1
  /\ UNCHANGED <<treeVars, threadVars, poolVars, replacerVars, callVars>>

HashCall(op, key, value) ==
  [op |-> op, key |-> key, value |-> value, ok |-> FALSE, present |-> ht_kv[key] # 0,
   full |-> IsFull(ht.buckets[ht.dir_[IndexOf(ht, key) + 1]]), diverged |-> FALSE,
   before |-> ht]

HashInsert(key, value) ==
  LET r == ExtendibleInsert(ht, key, value)
  IN HashStep(r.t, [HashCall("Insert", key, value) EXCEPT !.ok = r.ok,
                                                          !.diverged = r.diverged],
              [ht_kv EXCEPT ![key] = value])

HashRemove(key) ==
  LET r == ExtendibleRemove(ht, key)
  IN HashStep(r.t, [HashCall("Remove", key, 0) EXCEPT !.ok = r.ok],
              [ht_kv EXCEPT ![key] = 0])

HashFind(key) ==
  LET r == ExtendibleFind(ht, key)
  IN HashStep(ht, [HashCall("Find", key, r.value) EXCEPT !.ok = r.found], ht_kv)

NextHashTable ==
  \/ \E key \in HashKeys, value \in Values : HashInsert(key, value)
  \/ \E key \in HashKeys : HashRemove(key)
  \/ \E key \in HashKeys : HashFind(key)

\* ------------------------------------------------------------------------
\* The extendible hash table of part_003:14-201 called by several threads.
\* Find holds global_latch_ shared and the bucket's latch shared, Remove
\* holds global_latch_ exclusively, Insert first tries under the shared
\* global_latch_ and the bucket's exclusive latch, and retries under the
\* exclusive global_latch_ when the bucket was full.  Each of these
\* sections is one step.  A thread stores its own number as the value.
\* ------------------------------------------------------------------------
NoHashIo == [op |-> "none", key |-> 0, value |-> 0]

\* An Insert whose retry under the exclusive latch does not split.
InsertExclusive_NoSplit(t, key, value) == ExtendibleInsertInternal(t, key, value, FALSE)

\* Insert, lines 89-91: InsertInternal(key, value, 1) under global_latch_.
InsertExclusive(t, key, value) == ExtendibleInsertInternal(t, key, value, TRUE)

HashThreadStep(th, t, io, result, stored) ==
  /\ ~ht_last.diverged
  /\ ht' = t
  /\ ht_io' = [ht_io EXCEPT ![th] = io]
  /\ ht_last' = result
  /\ ht_kv' = IF result.diverged THEN ht_kv ELSE stored
  /\ UNCHANGED <<treeVars, threadVars, poolVars, replacerVars, pool_io, iter, client_pin, lru_pair>>

\* Insert, lines 85-88: InsertInternal(key, value, 0) under the shared
\* global_latch_; the call returns when the entry was stored.
ThreadHashInsertShared(th, key, value) ==
  /\ ht_io[th].op = "none"
  /\ ht_nops < MaxHashOps
  /\ ht_nops' = ht_nops + 1
  /\ LET is_inserted == ExtendibleInsertInternal(ht, key, value, FALSE) IN
     IF is_inserted.ok
       THEN HashThreadStep(th, is_inserted.t, NoHashIo,
                           [HashCall("Insert", key, value) EXCEPT !.ok = TRUE],
                           [ht_kv EXCEPT ![key] = value])
       ELSE HashThreadStep(th, ht, [op |-> "Insert", key |-> key, value |-> value],
                           ht_last, ht_kv)

\* Insert, lines 89-92: the retry under the exclusive global_latch_.
ThreadHashInsertExclusive(th) ==
  /\ ht_io[th].op = "Insert"
  /\ ht_nops' = ht_nops
  /\ LET r == InsertExclusive(ht, ht_io[th].key, ht_io[th].value) IN
       HashThreadStep(th, r.t, NoHashIo,
                      [HashCall("Insert", ht_io[th].key, ht_io[th].value) EXCEPT
                         !.ok = r.ok, !.diverged = r.diverged],
                      [ht_kv EXCEPT ![ht_io[th].key] = ht_io[th].value])

\* Remove (lines 76-81).
ThreadHashRemove(th, key) ==
  /\ ht_io[th].op = "none"
  /\ ht_nops < MaxHashOps
  /\ ht_nops' = ht_nops + 1
  /\ LET r == ExtendibleRemove(ht, key) IN
       HashThreadStep(th, r.t, NoHashIo, [HashCall("Remove", key, 0) EXCEPT !.ok = r.ok],
                      [ht_kv EXCEPT ![key] = 0])

\* Find (lines 69-74).
ThreadHashFind(th, key) ==
  /\ ht_io[th].op = "none"
  /\ ht_nops < MaxHashOps
  /\ ht_nops' = ht_nops + 1
  /\ LET r == ExtendibleFind(ht, key) IN
       HashThreadStep(th, ht, NoHashIo, [HashCall("Find", key, r.value) EXCEPT !.ok = r.found],
                      ht_kv)

NextHashThreads ==
  \/ \E th \in PoolThreads, key \in HashKeys : ThreadHashInsertShared(th, key, th)
  \/ \E th \in PoolThreads : ThreadHashInsertExclusive(th)
  \/ \E th \in PoolThreads, key \in HashKeys : ThreadHashRemove(th, key)
  \/ \E th \in PoolThreads, key \in HashKeys : ThreadHashFind(th, key)

\* ------------------------------------------------------------------------
\* The single-threaded tree: state, calls and specifications
\* ------------------------------------------------------------------------
T == [pg |-> pages, root |-> root_page_id_, nxt |-> tree_next_page_id_, pin |-> pin,
      ub |-> ub, lmax |-> leaf_max_size_, imax |-> internal_max_size_]

SetTree(t) ==
  /\ pages' = t.pg
  /\ root_page_id_' = t.root
  /\ tree_next_page_id_' = t.nxt
  /\ pin' = t.pin
  /\ ub' = t.ub

InitTree ==
  /\ pages = [p \in PageSlots |-> ZeroPage]
  /\ root_page_id_ = INVALID_PAGE_ID
  /\ tree_next_page_id_ = 1
  /\ pin = [p \in PageSlots |-> 0]
  /\ ub = FALSE
  /\ leaf_max_size_ \in LeafMaxSizes
  /\ internal_max_size_ \in InternalMaxSizes
  /\ kv = [k \in Keys |-> 0]
  /\ last = NoCall
  /\ nops = 0
  /\ InitThreads
  /\ InitPool("part_006", SetMax(PoolSizes), SetMax(ReplacerKs))
  /\ InitReplacer("part_005", 1, 1)
  /\ InitHashTable("global_latch_", 1)
  /\ InitCalls

\* One call of Insert; page_limit bounds the page ids the call may allocate.
InsertStep(key, value, page_limit) ==
  /\ ~ub
  /\ LET r == InsertCall(T, key, value) IN
       /\ r.t.nxt <= page_limit + 1
       /\ SetTree(r.t)
       /\ last' = [op |-> "Insert", key |-> key, value |-> value, ret |-> r.ret,
                   present |-> kv[key] # 0]
  /\ kv' = IF kv[key] = 0 THEN [kv EXCEPT ![key] = value] ELSE kv
  /\ nops' = nops + 1
  /\ UNCHANGED <<leaf_max_size_, internal_max_size_, threadVars>>
  /\ UNCHANGED <<poolVars, replacerVars, hashVars, callVars>>

\* One call of Remove.
RemoveStep(key) ==
  /\ ~ub
  /\ SetTree(RemoveCall(T, key))
  /\ last' = [op |-> "Remove", key |-> key, value |-> 0, ret |-> TRUE,
              present |-> kv[key] # 0]
  /\ kv' = [kv EXCEPT ![key] = 0]
  /\ nops' = nops + 1
  /\ UNCHANGED <<leaf_max_size_, internal_max_size_, threadVars>>
  /\ UNCHANGED <<poolVars, replacerVars, hashVars, callVars>>

Insert(key, value) ==
  /\ nops < MaxOps
  /\ InsertStep(key, value, MaxPages)

Remove(key) ==
  /\ nops < MaxOps
  /\ RemoveStep(key)

NextInsert == \E key \in Keys, value \in Values : Insert(key, value)

SpecInsert == InitTree /\ [][NextInsert]_vars

NextTree ==
  \/ \E key \in Keys, value \in Values : Insert(key, value)
  \/ \E key \in Keys : Remove(key)

SpecTree == InitTree /\ [][NextTree]_vars

\* ------------------------------------------------------------------------
\* An index iterator over a tree, and another caller of the buffer pool who
\* pins pages of the tree
\* ------------------------------------------------------------------------
\* The pins of BeginInternal (lines 458-469): every page of the descent is
\* fetched and unpinned.
RECURSIVE BeginInternalPins(_, _)
BeginInternalPins(t, cur_page_id) ==
  LET cur == t.pg[cur_page_id]
      t1 == UnpinPage(FetchPage(t, cur_page_id), cur_page_id)
  IN IF Invalid(cur) \/ IsLeafPage(cur) THEN t1
     ELSE BeginInternalPins(t1, cur.array_[1].second)

IterStep(t, it, op) ==
  /\ ~ub
  /\ SetTree(t)
  /\ iter' = [live |-> it.live, page_id_ |-> it.page_id_, index_ |-> it.index_, op |-> op]
  /\ UNCHANGED <<leaf_max_size_, internal_max_size_, kv, last, nops, client_pin>>
  /\ UNCHANGED <<threadVars, poolVars, replacerVars, hashVars, pool_io, ht_io, lru_pair>>

\* it = Begin() (lines 449-455) and the constructor (lines 16-21).
IterBegin ==
  /\ ~iter.live
  /\ LET b == Begin(pages, root_page_id_) IN
       /\ b.status = "ok"
       /\ IterStep(IF root_page_id_ = INVALID_PAGE_ID THEN T
                   ELSE BeginInternalPins(T, root_page_id_),
                   [live |-> TRUE, page_id_ |-> b.page_id, index_ |-> 0], "Begin")

\* *it (lines 30-36) of an iterator that is not at the end.
IterDereference ==
  /\ iter.live
  /\ iter.page_id_ # INVALID_PAGE_ID
  /\ IterStep(UnpinPage(FetchPage(T, iter.page_id_), iter.page_id_), iter, "operator*")

\* ++it (lines 39-51) of an iterator that is not at the end.
IterAdvance ==
  /\ iter.live
  /\ iter.page_id_ # INVALID_PAGE_ID
  /\ LET old_page_id == iter.page_id_
         cur_leaf_page == pages[old_page_id]
     IN IterStep(UnpinPage(FetchPage(T, old_page_id), old_page_id),
                 IF iter.index_ + 1 < GetSize(cur_leaf_page)
                   THEN [iter EXCEPT !.index_ = @ + 1]
                   ELSE [iter EXCEPT !.page_id_ = cur_leaf_page.next_page_id_, !.index_ = 0],
                 "operator++")

\* ~IndexIterator (line 24): UnpinPage(page_id_, false).
IterDestroy ==
  /\ iter.live
  /\ IterStep(UnpinPage(T, iter.page_id_), [iter EXCEPT !.live = FALSE], "~IndexIterator")

\* Another caller fetches a page of the tree and keeps it pinned.
ClientFetchPage(p) ==
  /\ ~ub
  /\ ~Invalid(pages[p])
  /\ client_pin[p] < MaxClientPins
  /\ SetTree(FetchPage(T, p))
  /\ client_pin' = [client_pin EXCEPT ![p] = @ + 1]
  /\ UNCHANGED <<leaf_max_size_, internal_max_size_, kv, last, nops, iter>>
  /\ UNCHANGED <<threadVars, poolVars, replacerVars, hashVars, pool_io, ht_io, lru_pair>>

\* That caller unpins a page it has pinned.
ClientUnpinPage(p) ==
  /\ ~ub
  /\ client_pin[p] > 0
  /\ SetTree(UnpinPage(T, p))
  /\ client_pin' = [client_pin EXCEPT ![p] = @ - 1]
  /\ UNCHANGED <<leaf_max_size_, internal_max_size_, kv, last, nops, iter>>
  /\ UNCHANGED <<threadVars, poolVars, replacerVars, hashVars, pool_io, ht_io, lru_pair>>

\* The tree is built by Inserts before the iterator is created.
IterInsert(key) ==
  /\ ~iter.live
  /\ nops < MaxIterKeys
  /\ InsertStep(key, 1, MaxPages)

NextIterator ==
  \/ \E key \in Keys : IterInsert(key)
  \/ IterBegin
  \/ IterDereference
  \/ IterAdvance
  \/ IterDestroy
  \/ \E p \in PageSlots : ClientFetchPage(p)
  \/ \E p \in PageSlots : ClientUnpinPage(p)

SpecIterator == InitTree /\ [][NextIterator]_vars

\* The scenario with leaf_max_size = internal_max_size = 4: the keys of
\* ScenarioKeys are inserted in ascending order, then the keys of
\* ScenarioRemoved are removed in any order.
ScenarioKeys == 1..10
ScenarioRemoved == 3..7

InitScenario ==
  /\ pages = [p \in PageSlots |-> ZeroPage]
  /\ root_page_id_ = INVALID_PAGE_ID
  /\ tree_next_page_id_ = 1
  /\ pin = [p \in PageSlots |-> 0]
  /\ ub = FALSE
  /\ leaf_max_size_ = 4
  /\ internal_max_size_ = 4
  /\ kv = [k \in ScenarioKeys |-> 0]
  /\ last = NoCall
  /\ nops = 0
  /\ InitThreads
  /\ InitPool("part_006", SetMax(PoolSizes), SetMax(ReplacerKs))
  /\ InitReplacer("part_005", 1, 1)
  /\ InitHashTable("global_latch_", 1)
  /\ InitCalls

ScenarioInsert(value) ==
  /\ nops + 1 \in ScenarioKeys
  /\ InsertStep(nops + 1, value, SetMax(PageSlots))

ScenarioRemove(key) ==
  /\ nops + 1 \notin ScenarioKeys
  /\ kv[key] # 0
  /\ RemoveStep(key)

NextScenario ==
  \/ \E value \in Values : ScenarioInsert(value)
  \/ \E key \in ScenarioRemoved : ScenarioRemove(key)

SpecScenario == InitScenario /\ [][NextScenario]_vars

\* The buffer pool on its own: every source, pool size and k of the replacer;
\* the tree is not built.
InitBufferPool ==
  /\ pages = [p \in PageSlots |-> ZeroPage]
  /\ root_page_id_ = INVALID_PAGE_ID
  /\ tree_next_page_id_ = 1
  /\ pin = [p \in PageSlots |-> 0]
  /\ ub = FALSE
  /\ leaf_max_size_ = SetMin(LeafMaxSizes)
  /\ internal_max_size_ = SetMin(InternalMaxSizes)
  /\ kv = [k \in Keys |-> 0]
  /\ last = NoCall
  /\ nops = 0
  /\ InitThreads
  /\ \E source \in PoolSources, pool_size \in PoolSizes, replacer_k \in ReplacerKs :
       InitPool(source, pool_size, replacer_k)
  /\ InitReplacer("part_005", 1, 1)
  /\ InitHashTable("global_latch_", 1)
  /\ InitCalls

SpecBufferPool == InitBufferPool /\ [][NextBufferPool]_vars

\* The buffer pool of buffer_pool_manager_instance.cpp called by NumThreads
\* threads.
InitPoolThreads ==
  /\ InitBufferPool
  /\ pool_source = "buffer_pool_manager_instance.cpp"

SpecPoolThreads == InitPoolThreads /\ [][NextPoolThreads]_vars

\* The replacer on its own: every source and k, MaxFrames frames; the tree
\* and the buffer pool are not used.
InitReplacerAlone ==
  /\ pages = [p \in PageSlots |-> ZeroPage]
  /\ root_page_id_ = INVALID_PAGE_ID
  /\ tree_next_page_id_ = 1
  /\ pin = [p \in PageSlots |-> 0]
  /\ ub = FALSE
  /\ leaf_max_size_ = SetMin(LeafMaxSizes)
  /\ internal_max_size_ = SetMin(InternalMaxSizes)
  /\ kv = [k \in Keys |-> 0]
  /\ last = NoCall
  /\ nops = 0
  /\ InitThreads
  /\ InitPool("part_006", 1, 1)
  /\ \E source \in ReplacerSources, replacer_k \in ReplacerKs :
       InitReplacer(source, MaxFrames, replacer_k)
  /\ InitHashTable("global_latch_", 1)
  /\ InitCalls

SpecReplacer == InitReplacerAlone /\ [][NextReplacer]_vars

\* The two replacers side by side: MaxFrames frames and every k.
InitReplacerPair ==
  /\ pages = [p \in PageSlots |-> ZeroPage]
  /\ root_page_id_ = INVALID_PAGE_ID
  /\ tree_next_page_id_ = 1
  /\ pin = [p \in PageSlots |-> 0]
  /\ ub = FALSE
  /\ leaf_max_size_ = SetMin(LeafMaxSizes)
  /\ internal_max_size_ = SetMin(InternalMaxSizes)
  /\ kv = [k \in Keys |-> 0]
  /\ last = NoCall
  /\ nops = 0
  /\ InitThreads
  /\ InitPool("part_006", 1, 1)
  /\ InitReplacer("part_005", 1, 1)
  /\ InitHashTable("global_latch_", 1)
  /\ InitOtherCalls
  /\ \E replacer_k \in ReplacerKs : InitPair(MaxFrames, replacer_k)

SpecReplacerPair == InitReplacerPair /\ [][NextReplacerPair]_vars

\* The replacer called with any int as frame id, negative ones included.
SpecReplacerArgs == InitReplacerAlone /\ [][NextReplacerArgs]_vars

\* Scenario S4: K = 2, a replacer created for 4 frames or for 5.
InitS4 ==
  /\ pages = [p \in PageSlots |-> ZeroPage]
  /\ root_page_id_ = INVALID_PAGE_ID
  /\ tree_next_page_id_ = 1
  /\ pin = [p \in PageSlots |-> 0]
  /\ ub = FALSE
  /\ leaf_max_size_ = SetMin(LeafMaxSizes)
  /\ internal_max_size_ = SetMin(InternalMaxSizes)
  /\ kv = [k \in Keys |-> 0]
  /\ last = NoCall
  /\ nops = 0
  /\ InitThreads
  /\ InitPool("part_006", 1, 1)
  /\ \E source \in ReplacerSources, num_frames \in S4Sizes :
       InitReplacer(source, num_frames, 2)
  /\ InitHashTable("global_latch_", 1)
  /\ InitCalls

SpecS4 == InitS4 /\ [][NextS4]_vars

\* The hash table on its own: every source and bucket size; the tree, the
\* buffer pool and the replacer are not used.
InitHashAlone ==
  /\ pages = [p \in PageSlots |-> ZeroPage]
  /\ root_page_id_ = INVALID_PAGE_ID
  /\ tree_next_page_id_ = 1
  /\ pin = [p \in PageSlots |-> 0]
  /\ ub = FALSE
  /\ leaf_max_size_ = SetMin(LeafMaxSizes)
  /\ internal_max_size_ = SetMin(InternalMaxSizes)
  /\ kv = [k \in Keys |-> 0]
  /\ last = NoCall
  /\ nops = 0
  /\ InitThreads
  /\ InitPool("part_006", 1, 1)
  /\ InitReplacer("part_005", 1, 1)
  /\ \E source \in HashSources, bucket_size \in BucketSizes :
       InitHashTable(source, bucket_size)
  /\ InitCalls

SpecHashTable == InitHashAlone /\ [][NextHashTable]_vars

\* The table of part_003:14-201 called by NumThreads threads.
InitHashThreads ==
  /\ InitHashAlone
  /\ ht.source = "global_latch_"

SpecHashThreads == InitHashThreads /\ [][NextHashThreads]_vars

\* ------------------------------------------------------------------------
\* Threads calling GetValue, Insert, Remove and Begin on one tree
\* ------------------------------------------------------------------------
\* A GetValue or Begin of thread t reads root_page_id_ or a page.
ReadBy(t) == overlap' = (overlap \/ \E u \in Threads \ {t} : in_write[u])

StartCall(t, op, key, value) ==
  /\ ~ub
  /\ pc[t] = "idle"
  /\ nops < MaxCalls
  /\ nops' = nops + 1
  /\ call' = [call EXCEPT ![t] = [op |-> op, key |-> key, value |-> value,
                                  ret |-> FALSE, present |-> kv[key] # 0]]

Return(t, result) ==
  /\ pc' = [pc EXCEPT ![t] = "idle"]
  /\ ret' = [ret EXCEPT ![t] = result]
  /\ path' = [path EXCEPT ![t] = <<>>]
  /\ in_write' = [in_write EXCEPT ![t] = FALSE]

Goto(t, label) == pc' = [pc EXCEPT ![t] = label]

At(t, label) == ~ub /\ pc[t] = label

\* Insert, lines 157-158: lock the guard and test root_page_id_.
InsertStart(t, key) ==
  /\ StartCall(t, "Insert", key, ValueOf(key))
  /\ CanLock(root_page_id_guard_)
  /\ root_page_id_guard_' = [root_page_id_guard_ EXCEPT !.writer = t]
  /\ Goto(t, IF root_page_id_ = INVALID_PAGE_ID THEN "ins_new_page" ELSE "ins_lock_global")
  /\ UNCHANGED <<pages, root_page_id_, tree_next_page_id_, pin, ub, leaf_max_size_,
                 internal_max_size_, kv, last, path, global_latch_, ret, in_write,
                 overlap, only_inserts>>
  /\ UNCHANGED <<poolVars, replacerVars, hashVars, callVars>>

\* Insert, line 159: NewPage(&root_page_id_).
InsertNewPage(t) ==
  /\ At(t, "ins_new_page")
  /\ LET n == NewPage(T) IN SetTree([n EXCEPT !.root = T.nxt])
  /\ in_write' = [in_write EXCEPT ![t] = TRUE]
  /\ Goto(t, "ins_init_root")
  /\ UNCHANGED <<leaf_max_size_, internal_max_size_, kv, last, nops, call, path,
                 root_page_id_guard_, global_latch_, ret, overlap, only_inserts>>
  /\ UNCHANGED <<poolVars, replacerVars, hashVars, callVars>>

\* Insert, lines 160-162: Init the root leaf, UpdateRootPageId, UnpinPage.
InsertInitRoot(t) ==
  /\ At(t, "ins_init_root")
  /\ LET i == [T EXCEPT !.pg[root_page_id_] =
                          LeafInit(root_page_id_, INVALID_PAGE_ID, leaf_max_size_)]
     IN SetTree(UnpinPage(UpdateRootPageId(i), root_page_id_))
  /\ Goto(t, "ins_lock_global")
  /\ UNCHANGED <<leaf_max_size_, internal_max_size_, kv, last, nops, call, path,
                 root_page_id_guard_, global_latch_, ret, in_write, overlap, only_inserts>>
  /\ UNCHANGED <<poolVars, replacerVars, hashVars, callVars>>

\* Insert, line 164, and Remove, line 276: lock global_latch_.
LockGlobal(t, from, to) ==
  /\ At(t, from)
  /\ CanLock(global_latch_)
  /\ global_latch_' = [global_latch_ EXCEPT !.writer = t]
  /\ Goto(t, to)
  /\ UNCHANGED <<treeVars, call, path, root_page_id_guard_, ret, in_write, overlap,
                 only_inserts>>
  /\ UNCHANGED <<poolVars, replacerVars, hashVars, callVars>>

InsertLockGlobal(t) == LockGlobal(t, "ins_lock_global", "ins_internal")

\* InsertInternal(root_page_id_, ...): unlock the guard (line 171), descend
\* and insert into the leaf.  The call ends here when nothing is split.
InsertInternalDescend(t) ==
  /\ At(t, "ins_internal")
  /\ root_page_id_guard_' = Unlocked
  /\ LET r == InsertDescend(T, root_page_id_, call[t].key, call[t].value)
         done == InsertUnwind(r.t, r.path, r.ret)
     IN
     /\ kv' = IF r.ret /\ kv[call[t].key] = 0
                THEN [kv EXCEPT ![call[t].key] = call[t].value] ELSE kv
     /\ IF r.t.ub \/ (done.pg = r.t.pg /\ done.root = r.t.root)
          THEN /\ SetTree(IF r.t.ub THEN r.t ELSE done)
               /\ global_latch_' = Unlocked
               /\ Return(t, Result("Insert", r.ret, 0, "ok", 0))
          ELSE /\ SetTree(r.t)
               /\ path' = [path EXCEPT ![t] = r.path]
               /\ in_write' = [in_write EXCEPT ![t] = TRUE]
               /\ Goto(t, "ins_split")
               /\ UNCHANGED <<global_latch_, ret>>
  /\ UNCHANGED <<leaf_max_size_, internal_max_size_, last, nops, call, overlap,
                 only_inserts>>
  /\ UNCHANGED <<poolVars, replacerVars, hashVars, callVars>>

\* InsertSplit with global_latch_ still held when the call returns.
InsertSplit_KeepsLatch(t) ==
  /\ At(t, "ins_split")
  /\ LET done == InsertUnwind(T, path[t], TRUE) IN
       /\ done.nxt <= SetMax(PageSlots) + 1
       /\ SetTree(done)
  /\ global_latch_' = global_latch_
  /\ Return(t, Result("Insert", TRUE, 0, "ok", 0))
  /\ UNCHANGED <<leaf_max_size_, internal_max_size_, kv, last, nops, call,
                 root_page_id_guard_, overlap, only_inserts>>
  /\ UNCHANGED <<poolVars, replacerVars, hashVars, callVars>>

\* InsertInternal, lines 197-257 in the frames on the way up.
InsertSplit(t) ==
  /\ At(t, "ins_split")
  /\ LET done == InsertUnwind(T, path[t], TRUE) IN
       /\ done.nxt <= SetMax(PageSlots) + 1
       /\ SetTree(done)
  /\ global_latch_' = Unlocked
  /\ Return(t, Result("Insert", TRUE, 0, "ok", 0))
  /\ UNCHANGED <<leaf_max_size_, internal_max_size_, kv, last, nops, call,
                 root_page_id_guard_, overlap, only_inserts>>
  /\ UNCHANGED <<poolVars, replacerVars, hashVars, callVars>>

\* Remove, lines 271-275: lock the guard and test IsEmpty().
RemoveStart(t, key) ==
  /\ StartCall(t, "Remove", key, 0)
  /\ CanLock(root_page_id_guard_)
  /\ only_inserts' = FALSE
  /\ IF IsEmpty(root_page_id_)
       THEN /\ Return(t, Result("Remove", TRUE, 0, "ok", 0))
            /\ UNCHANGED root_page_id_guard_
       ELSE /\ root_page_id_guard_' = [root_page_id_guard_ EXCEPT !.writer = t]
            /\ Goto(t, "rem_lock_global")
            /\ UNCHANGED <<path, ret, in_write>>
  /\ UNCHANGED <<pages, root_page_id_, tree_next_page_id_, pin, ub, leaf_max_size_,
                 internal_max_size_, kv, last, global_latch_, overlap>>
  /\ UNCHANGED <<poolVars, replacerVars, hashVars, callVars>>

RemoveLockGlobal(t) == LockGlobal(t, "rem_lock_global", "rem_internal")

\* RemoveInternal(root_page_id_, ...): unlock the guard (line 283), descend
\* and remove from the leaf.  The call ends here when nothing is rebalanced.
RemoveInternalDescend(t) ==
  /\ At(t, "rem_internal")
  /\ root_page_id_guard_' = Unlocked
  /\ LET r == RemoveDescend(T, root_page_id_, call[t].key)
         done == RemoveUnwind(r.t, r.path)
     IN
     /\ kv' = [kv EXCEPT ![call[t].key] = 0]
     /\ IF r.t.ub \/ (done.pg = r.t.pg /\ done.root = r.t.root)
          THEN /\ SetTree(IF r.t.ub THEN r.t ELSE done)
               /\ global_latch_' = Unlocked
               /\ Return(t, Result("Remove", TRUE, 0, "ok", 0))
          ELSE /\ SetTree(r.t)
               /\ path' = [path EXCEPT ![t] = r.path]
               /\ in_write' = [in_write EXCEPT ![t] = TRUE]
               /\ Goto(t, "rem_rebalance")
               /\ UNCHANGED <<global_latch_, ret>>
  /\ UNCHANGED <<leaf_max_size_, internal_max_size_, last, nops, call, overlap,
                 only_inserts>>
  /\ UNCHANGED <<poolVars, replacerVars, hashVars, callVars>>

\* RemoveInternal, lines 303-438 in the frames on the way up.
RemoveRebalance(t) ==
  /\ At(t, "rem_rebalance")
  /\ SetTree(RemoveUnwind(T, path[t]))
  /\ global_latch_' = Unlocked
  /\ Return(t, Result("Remove", TRUE, 0, "ok", 0))
  /\ UNCHANGED <<leaf_max_size_, internal_max_size_, kv, last, nops, call,
                 root_page_id_guard_, overlap, only_inserts>>
  /\ UNCHANGED <<poolVars, replacerVars, hashVars, callVars>>

\* GetValue, lines 111-115: lock the guard shared and test IsEmpty().
GetValueStart(t, key) ==
  /\ StartCall(t, "GetValue", key, 0)
  /\ CanLockShared(root_page_id_guard_)
  /\ ReadBy(t)
  /\ IF IsEmpty(root_page_id_)
       THEN /\ Return(t, Result("GetValue", FALSE, 0, "ok", 0))
            /\ UNCHANGED root_page_id_guard_
       ELSE /\ root_page_id_guard_' = [root_page_id_guard_ EXCEPT !.readers = @ \cup {t}]
            /\ Goto(t, "gv_lock_global")
            /\ UNCHANGED <<path, ret, in_write>>
  /\ UNCHANGED <<pages, root_page_id_, tree_next_page_id_, pin, ub, leaf_max_size_,
                 internal_max_size_, kv, last, global_latch_, only_inserts>>
  /\ UNCHANGED <<poolVars, replacerVars, hashVars, callVars>>

\* GetValue, line 116: lock global_latch_ shared.
GetValueLockGlobal(t) ==
  /\ At(t, "gv_lock_global")
  /\ CanLockShared(global_latch_)
  /\ global_latch_' = [global_latch_ EXCEPT !.readers = @ \cup {t}]
  /\ Goto(t, "gv_internal")
  /\ UNCHANGED <<treeVars, call, path, root_page_id_guard_, ret, in_write, overlap,
                 only_inserts>>
  /\ UNCHANGED <<poolVars, replacerVars, hashVars, callVars>>

\* GetValueInternal(root_page_id_, ...): unlock the guard (line 124), search,
\* unlock global_latch_.
GetValueInternalStep(t) ==
  /\ At(t, "gv_internal")
  /\ ReadBy(t)
  /\ root_page_id_guard_' = [root_page_id_guard_ EXCEPT !.readers = @ \ {t}]
  /\ global_latch_' = [global_latch_ EXCEPT !.readers = @ \ {t}]
  /\ LET outcomes == GetValueInternal(pages, root_page_id_, call[t].key) IN
       \E r \in outcomes :
         Return(t, Result("GetValue", r.found, r.value,
                          IF outcomes = AnyResult THEN "undefined" ELSE "ok", 0))
  /\ UNCHANGED <<treeVars, call, only_inserts>>
  /\ UNCHANGED <<poolVars, replacerVars, hashVars, callVars>>

\* Begin, line 450: lock global_latch_.  The guard is not taken.
BeginLock(t) ==
  /\ StartCall(t, "Begin", 1, 0)
  /\ CanLock(global_latch_)
  /\ global_latch_' = [global_latch_ EXCEPT !.writer = t]
  /\ Goto(t, "begin_root")
  /\ UNCHANGED <<pages, root_page_id_, tree_next_page_id_, pin, ub, leaf_max_size_,
                 internal_max_size_, kv, last, path, root_page_id_guard_, ret, in_write,
                 overlap, only_inserts>>
  /\ UNCHANGED <<poolVars, replacerVars, hashVars, callVars>>

\* Begin, lines 451-454: read root_page_id_.
BeginReadRoot(t) ==
  /\ At(t, "begin_root")
  /\ ReadBy(t)
  /\ IF root_page_id_ = INVALID_PAGE_ID
       THEN /\ Return(t, Result("Begin", TRUE, 0, "ok", INVALID_PAGE_ID))
            /\ global_latch_' = Unlocked
       ELSE /\ path' = [path EXCEPT ![t] = <<root_page_id_>>]
            /\ Goto(t, "begin_internal")
            /\ UNCHANGED <<global_latch_, ret, in_write>>
  /\ UNCHANGED <<treeVars, call, root_page_id_guard_, only_inserts>>
  /\ UNCHANGED <<poolVars, replacerVars, hashVars, callVars>>

\* BeginInternal, lines 458-469, and the unlock of global_latch_.
BeginInternalStep(t) ==
  /\ At(t, "begin_internal")
  /\ ReadBy(t)
  /\ LET b == BeginInternal(pages, Head(path[t])) IN
       Return(t, Result("Begin", b.status = "ok", 0, b.status, b.page_id))
  /\ global_latch_' = Unlocked
  /\ UNCHANGED <<treeVars, call, root_page_id_guard_, only_inserts>>
  /\ UNCHANGED <<poolVars, replacerVars, hashVars, callVars>>

NextConcurrent ==
  \E t \in Threads :
    \/ \E key \in ThreadKeys(t) : InsertStart(t, key)
    \/ InsertNewPage(t)
    \/ InsertInitRoot(t)
    \/ InsertLockGlobal(t)
    \/ InsertInternalDescend(t)
    \/ InsertSplit(t)
    \/ \E key \in Keys : RemoveStart(t, key)
    \/ RemoveLockGlobal(t)
    \/ RemoveInternalDescend(t)
    \/ RemoveRebalance(t)
    \/ \E key \in Keys : GetValueStart(t, key)
    \/ GetValueLockGlobal(t)
    \/ GetValueInternalStep(t)
    \/ BeginLock(t)
    \/ BeginReadRoot(t)
    \/ BeginInternalStep(t)

SpecConcurrent == InitTree /\ [][NextConcurrent]_vars

\* ------------------------------------------------------------------------
\* What the calls made so far should have left in the index
\* ------------------------------------------------------------------------
Expected(k) ==
  IF kv[k] # 0 THEN [found |-> TRUE, value |-> kv[k]] ELSE [found |-> FALSE, value |-> 0]

RECURSIVE SortedKeys(_)
SortedKeys(S) ==
  IF S = {} THEN <<>> ELSE <<SetMin(S)>> \o SortedKeys(S \ {SetMin(S)})

LiveKeys == {k \in DOMAIN kv : kv[k] # 0}

\* C1: after any sequence of Inserts of distinct keys every such Insert has
\* returned true, GetValue(k) returns exactly the inserted value for every
\* inserted key and returns false for every key never inserted.
C1_InsertThenGetValue ==
  /\ (last.op = "Insert" /\ ~last.present) => last.ret
  /\ \A k \in Keys : GetValue(pages, root_page_id_, k) = {Expected(k)}

\* C1 witness: a key smaller than an existing one was inserted into a tree
\* whose root has already been split.
C1_Witness ==
  /\ last.op = "Insert" /\ ~last.present
  /\ root_page_id_ # INVALID_PAGE_ID
  /\ pages[root_page_id_].page_type = "INTERNAL_PAGE"
  /\ \E k \in LiveKeys : k > last.key
  /\ Cardinality(LiveKeys) >= 4

\* C2: after Remove(k) GetValue(k) returns false and every other key that
\* was inserted and not removed is still found with its value.
C2_RemoveKeepsOtherKeys ==
  last.op = "Remove" =>
    \A k \in Keys : GetValue(pages, root_page_id_, k) = {Expected(k)}

\* C3: after any sequence of Inserts the scan from Begin() to End() yields
\* every inserted key exactly once, in ascending order.
C3_ScanAfterInserts ==
  Scan(pages, root_page_id_) = [status |-> "ok", keys |-> SortedKeys(LiveKeys)]

\* C7: when Remove deletes the only key left, root_page_id_ is
\* INVALID_PAGE_ID and IsEmpty() is true.
C7_LastKeyRemovedEmptiesTree ==
  (last.op = "Remove" /\ last.present /\ LiveKeys = {}) => IsEmpty(root_page_id_)

\* C4: after any sequence of Inserts and Removes the scan from Begin() to
\* End() yields exactly the keys inserted and not removed, ascending, once
\* each (with leaf_max_size = internal_max_size = 4: 1..10 inserted and
\* 3,4,5,6,7 removed leave 1,2,8,9,10).
C4_ScanAfterRemoves ==
  /\ ~ub
  /\ Scan(pages, root_page_id_) = [status |-> "ok", keys |-> SortedKeys(LiveKeys)]

\* C5: Insert(k, v2) on a tree that holds k returns false and leaves every
\* page, root_page_id_ and every pin count as they were.
C5_DuplicateInsertChangesNothing ==
  [][\A k \in Keys :
       ( /\ last'.op = "Insert" /\ last'.key = k /\ nops' = nops + 1
         /\ \E v \in Values : GetValue(pages, root_page_id_, k) = {[found |-> TRUE, value |-> v]} )
       => ( /\ ~last'.ret
            /\ pages' = pages
            /\ root_page_id_' = root_page_id_
            /\ pin' = pin
            /\ tree_next_page_id_' = tree_next_page_id_ )]_vars

\* C5 witness: a duplicate Insert with another value was refused by a tree
\* whose root is an internal page.
C5_Witness ==
  /\ last.op = "Insert" /\ last.present /\ ~last.ret
  /\ last.value # kv[last.key]
  /\ pages[root_page_id_].page_type = "INTERNAL_PAGE"

\* The pages reachable from page_id through child pointers, with depths.
RECURSIVE Nodes(_, _, _, _)
Nodes(pg, page_id, depth, fuel) ==
  IF page_id \notin DOMAIN pg THEN {[id |-> page_id, depth |-> depth, kind |-> "none"]}
  ELSE IF pg[page_id].page_type # "INTERNAL_PAGE" \/ fuel = 0
    THEN {[id |-> page_id, depth |-> depth, kind |-> pg[page_id].page_type]}
  ELSE {[id |-> page_id, depth |-> depth, kind |-> "INTERNAL_PAGE"]} \cup
       UNION {Nodes(pg, pg[page_id].array_[i].second, depth + 1, fuel - 1) :
                i \in 1..Len(pg[page_id].array_)}

TreeNodes ==
  IF root_page_id_ = INVALID_PAGE_ID THEN {}
  ELSE Nodes(pages, root_page_id_, 0, Cardinality(DOMAIN pages))

\* C6: all leaves are at the same depth, every non-root leaf has
\* min_size <= size <= max_size and every non-root internal page has
\* min_size <= size <= max_size + 1, with min_size = ceil(max_size / 2).
C6_BalancedAndSized ==
  /\ \A n \in TreeNodes : n.kind \in {"LEAF_PAGE", "INTERNAL_PAGE"}
  /\ \A m, n \in TreeNodes :
       (m.kind = "LEAF_PAGE" /\ n.kind = "LEAF_PAGE") => m.depth = n.depth
  /\ \A n \in TreeNodes :
       (n.id # root_page_id_ /\ n.kind = "LEAF_PAGE") =>
          /\ (leaf_max_size_ + 1) \div 2 <= GetSize(pages[n.id])
          /\ GetSize(pages[n.id]) <= leaf_max_size_
  /\ \A n \in TreeNodes :
       (n.id # root_page_id_ /\ n.kind = "INTERNAL_PAGE") =>
          /\ (internal_max_size_ + 1) \div 2 <= GetSize(pages[n.id])
          /\ GetSize(pages[n.id]) <= internal_max_size_ + 1

\* C8: when threads have concurrently inserted pairwise disjoint sets of keys
\* and all of them have finished, the scan from Begin() yields the union of
\* the sets in ascending order, each key once, and GetValue finds every key.
C8_ConcurrentInsertsAllFound ==
  (only_inserts /\ \A t \in Threads : pc[t] = "idle") =>
     /\ Scan(pages, root_page_id_) = [status |-> "ok", keys |-> SortedKeys(LiveKeys)]
     /\ \A k \in Keys : GetValue(pages, root_page_id_, k) = {Expected(k)}

\* C9: no GetValue and no Begin reads root_page_id_ or a page of the tree
\* while an Insert or Remove of another thread is between its first and its
\* last modification, and every completed read has a defined result.
C9_WritersExcludeReaders ==
  /\ ~overlap
  /\ \A t \in Threads : ret[t].status # "undefined"

\* C10: NewPage -- and FetchPage of a page that is not resident -- returns
\* null exactly when the call finds the free list empty and no resident frame
\* with pin_count 0; in particular with every frame pinned NewPage returns
\* null, and once UnpinPage has brought a pin count to 0 it succeeds.
C10_NullIffNoFrame ==
  (\/ pool_last.op = "NewPage"
   \/ (pool_last.op = "FetchPage" /\ ~pool_last.resident))
  => /\ fault = "none"
     /\ pool_last.null <=> ~pool_last.acquirable

\* A NewPage that succeeded by evicting the page of an unpinned frame, after
\* an earlier NewPage had returned null with every frame pinned.
C10_Witness ==
  /\ pool_last.op = "NewPage"
  /\ ~pool_last.null
  /\ ~pool_last.free
  /\ null_seen
  /\ pool_size_ = MaxPoolSize

\* Frames of the pool, the frames somebody pins, and the frames the replacer
\* tracks as evictable.
FrameIds == DOMAIN pages_
PinnedFrames == {f \in FrameIds : pages_[f].pin_count_ > 0}
EvictableFrames == {f \in FrameIds : replacer_.allocated_[f] /\ replacer_.evictable_[f]}

\* C11: between calls the directory maps page id p to frame f exactly when f
\* holds p, no two frames hold the same page id, every pin_count is >= 0 and
\* every frame evictable in the replacer has pin_count 0.
C11_DirectoryAndPins ==
  /\ page_table_ = {<<pages_[f].page_id_, f>> : f \in {g \in FrameIds : pages_[g].page_id_ # INVALID_PAGE_ID}}
  /\ \A f, g \in FrameIds :
       (f # g /\ pages_[f].page_id_ # INVALID_PAGE_ID) => pages_[f].page_id_ # pages_[g].page_id_
  /\ \A f \in FrameIds : pages_[f].pin_count_ >= 0
  /\ \A f \in EvictableFrames : pages_[f].pin_count_ = 0

\* After a victim was evicted for a new page: one frame pinned, another
\* evictable, both resident.
C11_Witness ==
  /\ pool_last.op \in {"NewPage", "FetchPage"}
  /\ ~pool_last.null /\ ~pool_last.free /\ ~pool_last.resident
  /\ PinnedFrames # {}
  /\ EvictableFrames # {}

\* C12: between calls, the number of pinned frames plus the length of the
\* free list plus the replacer's Size() equals pool_size_.
C12_FramesAccounted ==
  Cardinality(PinnedFrames) + Len(free_list_) + ReplacerSize(replacer_) = pool_size_

\* A pool of two frames with one page pinned and one evictable, after a
\* DeletePage had put a frame back on the free list and it was taken again.
C12_Witness ==
  /\ pool_size_ = MaxPoolSize
  /\ Cardinality(PinnedFrames) = 1
  /\ ReplacerSize(replacer_) = 1
  /\ \E f \in FrameIds : pages_[f].page_id_ > 1 /\ pages_[f].pin_count_ = 0

\* C13: FetchPage(p) of a page that was not deleted returns a frame whose
\* bytes are the bytes p had when it was last unpinned with dirty = true or
\* flushed (every write since reported that way), also when p was evicted
\* and read back in between.
C13_FetchReturnsReportedBytes ==
  \A p \in PoolPageIds :
    (/\ pool_last.op = "FetchPage" /\ pool_last.page_id = p /\ ~pool_last.null
     /\ ~page_hist[p].deleted
     /\ ~page_hist[p].unreported)
    => /\ TableFind(page_table_, p)
       /\ pages_[TableFrame(page_table_, p)].page_id_ = p
       /\ pages_[TableFrame(page_table_, p)].data_ = page_hist[p].committed

\* A FetchPage that read back from disk a page which had been written,
\* unpinned dirty and evicted.
C13_Witness ==
  \E p \in PoolPageIds :
    /\ pool_last.op = "FetchPage" /\ pool_last.page_id = p /\ ~pool_last.null
    /\ ~pool_last.resident /\ ~pool_last.free
    /\ ~page_hist[p].deleted /\ ~page_hist[p].unreported
    /\ page_hist[p].committed # 0
    /\ disk[p] = page_hist[p].committed

\* The step of one buffer pool call named op.
PoolCallStep(op) == pool_nops' = pool_nops + 1 /\ pool_last'.op = op

\* C14: UnpinPage(id, dirty) returns false and changes nothing when id is
\* not resident or its pin count is already 0; otherwise it returns true,
\* decrements the pin count by exactly one, and the frame is evictable in
\* the replacer afterwards exactly when the count has reached 0.
C14_UnpinPage ==
  [][PoolCallStep("UnpinPage") =>
       LET id == pool_last'.page_id IN
       IF ~TableFind(page_table_, id) \/ pages_[TableFrame(page_table_, id)].pin_count_ = 0
         THEN /\ ~pool_last'.ok
              /\ UNCHANGED <<pages_, free_list_, page_table_, next_page_id_, replacer_, disk>>
         ELSE LET f == TableFrame(page_table_, id) IN
              /\ pool_last'.ok
              /\ pages_'[f].pin_count_ = pages_[f].pin_count_ - 1
              /\ (replacer_'.allocated_[f] /\ replacer_'.evictable_[f])
                   <=> pages_'[f].pin_count_ = 0
              /\ UNCHANGED <<free_list_, page_table_, next_page_id_, disk>>
              /\ \A g \in FrameIds \ {f} : pages_'[g] = pages_[g]]_vars

\* A second UnpinPage of a resident page whose pin count the first had
\* brought to 0: it returned false and the frame is still evictable.
C14_Witness ==
  /\ pool_last.op = "UnpinPage" /\ ~pool_last.ok /\ pool_last.resident
  /\ LET f == TableFrame(page_table_, pool_last.page_id) IN
       /\ pages_[f].pin_count_ = 0
       /\ f \in EvictableFrames

\* C15: a resident page whose is_dirty flag is set keeps it through every
\* call -- UnpinPage(id, false) and FetchPage(id) among them -- except a
\* flush of the page, its eviction (its bytes then written to disk) and its
\* deletion.
C15_DirtyIsSticky ==
  [][\A f \in FrameIds :
       (pages_[f].page_id_ # INVALID_PAGE_ID /\ pages_[f].is_dirty_) =>
         LET id == pages_[f].page_id_ IN
         \/ pages_'[f].page_id_ = id /\ pages_'[f].is_dirty_
         \/ PoolCallStep("FlushPage") /\ pool_last'.page_id = id
         \/ PoolCallStep("FlushAllPages")
         \/ PoolCallStep("DeletePage") /\ pool_last'.page_id = id /\ pool_last'.ok
         \/ /\ PoolCallStep("NewPage") \/ PoolCallStep("FetchPage")
            /\ ~pool_last'.null /\ ~pool_last'.free /\ ~pool_last'.resident
            /\ ~TableFind(page_table_', id)
            /\ disk'[id] = pages_[f].data_]_vars

\* A page unpinned dirty, fetched again, written and unpinned with
\* dirty = false: its flag is still set.
C15_Witness ==
  /\ pool_last.op = "UnpinPage" /\ pool_last.ok
  /\ page_hist[pool_last.page_id].unreported
  /\ pages_[TableFrame(page_table_, pool_last.page_id)].is_dirty_

\* C16: FlushPage(id) returns false when id is not resident; otherwise it
\* returns true, the disk holds the frame's bytes for id, is_dirty is false,
\* and the pin count, the evictability, the directory and the free list are
\* as before.
C16_FlushPage ==
  [][PoolCallStep("FlushPage") =>
       LET id == pool_last'.page_id IN
       IF ~TableFind(page_table_, id)
         THEN /\ ~pool_last'.ok
              /\ UNCHANGED <<pages_, free_list_, page_table_, next_page_id_, replacer_, disk>>
         ELSE LET f == TableFrame(page_table_, id) IN
              /\ pool_last'.ok
              /\ disk'[id] = pages_'[f].data_
              /\ pages_'[f] = [pages_[f] EXCEPT !.is_dirty_ = FALSE]
              /\ \A g \in FrameIds \ {f} : pages_'[g] = pages_[g]
              /\ \A q \in PoolPageIds \ {id} : disk'[q] = disk[q]
              /\ UNCHANGED <<free_list_, page_table_, next_page_id_, replacer_>>]_vars

\* A FlushPage of a pinned page that wrote new bytes to disk.
C16_Witness ==
  /\ pool_last.op = "FlushPage" /\ pool_last.ok
  /\ LET f == TableFrame(page_table_, pool_last.page_id) IN
       /\ pages_[f].pin_count_ > 0
       /\ pages_[f].data_ # 0
       /\ disk[pool_last.page_id] = pages_[f].data_
       /\ ~pages_[f].is_dirty_

\* C17: DeletePage(id) returns true and changes nothing when id is not
\* resident; returns false and changes nothing when id is resident and
\* pinned; otherwise it returns true, id has left the directory, its frame
\* has left the replacer (Size() one less), is back on the free list and is
\* reset: page id invalid, pin_count 0, not dirty.
C17_DeletePage ==
  [][PoolCallStep("DeletePage") =>
       LET id == pool_last'.page_id IN
       IF ~TableFind(page_table_, id)
         THEN /\ pool_last'.ok
              /\ UNCHANGED <<pages_, free_list_, page_table_, next_page_id_, replacer_, disk>>
       ELSE IF pages_[TableFrame(page_table_, id)].pin_count_ > 0
         THEN /\ ~pool_last'.ok
              /\ UNCHANGED <<pages_, free_list_, page_table_, next_page_id_, replacer_, disk>>
       ELSE LET f == TableFrame(page_table_, id) IN
              /\ pool_last'.ok
              /\ ~TableFind(page_table_', id)
              /\ ~replacer_'.allocated_[f] /\ ~replacer_'.evictable_[f]
              /\ ReplacerSize(replacer_') = ReplacerSize(replacer_) - 1
              /\ free_list_' = Append(free_list_, f)
              /\ pages_'[f].page_id_ = INVALID_PAGE_ID
              /\ pages_'[f].pin_count_ = 0
              /\ ~pages_'[f].is_dirty_
              /\ fault' = "none"]_vars

\* A DeletePage of a resident, unpinned page whose bytes had been reported:
\* its frame is the last
\* of the free list again and reset.
C17_Witness ==
  /\ pool_last.op = "DeletePage" /\ pool_last.ok /\ pool_last.resident
  /\ page_hist[pool_last.page_id].deleted
  /\ page_hist[pool_last.page_id].committed # 0
  /\ free_list_ # <<>>
  /\ pages_[Last(free_list_)] = FreePage

\* The step of one replacer call named op.
LruCallStep(op) == lru_nops' = lru_nops + 1 /\ lru_last'.op = op

\* The frames the replacer r tracks as evictable, and those of them with
\* fewer than k_ recorded accesses.
Candidates(r) == {f \in DOMAIN r.history_ : r.allocated_[f] /\ r.evictable_[f]}
Incomplete(r) == {f \in Candidates(r) : Len(r.history_[f]) < r.k_}

S4Expected(num_frames) ==
  Cardinality(DOMAIN lru.history_) = num_frames =>
    /\ ~lru_script.threw
    /\ Len(lru_script.evicted) >= 1 => lru_script.evicted[1] = 4
    /\ Len(lru_script.evicted) >= 2 => lru_script.evicted[2] = 1

\* C19, as claimed: with K = 2 and a replacer of 4 frames, after the accesses
\* 1,1,2,3,4,2,3,1 with every frame marked evictable, the first Evict returns
\* frame 4 and the next the frame of maximum backward K-distance.
C19_S4WithFourFrames == S4Expected(4)

\* C19, amended: the same with a replacer created for 5 frames, whose valid
\* frame ids are 0..4.
C19_S4WithFiveFrames == S4Expected(5)

\* Both Evicts of the scenario made on a replacer of 5 frames, frames marked
\* evictable before their later accesses.
C19_Witness ==
  /\ Cardinality(DOMAIN lru.history_) = 5
  /\ lru_script.evicted = <<4, 1>>
  /\ lru_last.op = "Evict"

\* C20: Size() is the number of tracked, evictable frames; SetEvictable
\* changes Size() only when the flag of the frame flips, and then by one;
\* an Evict that returns true and a Remove of a tracked evictable frame lower
\* Size() by exactly one and clear the history of the frame; Evict returns
\* false, changing nothing, exactly when Size() is 0.
C20_SizeCountsEvictable ==
  /\ [](ReplacerSize(lru) = Cardinality(Candidates(lru)))
  /\ [][/\ LruCallStep("SetEvictable") =>
             LET f == lru_last'.frame_id
                 was == f \in Candidates(lru)
                 is == f \in Candidates(lru')
             IN ReplacerSize(lru') - ReplacerSize(lru) =
                  (IF ~was /\ is THEN 1 ELSE IF was /\ ~is THEN -1 ELSE 0)
        /\ LruCallStep("Evict") =>
             /\ ~lru_last'.undefined
             /\ lru_last'.ok <=> ReplacerSize(lru) # 0
             /\ ~lru_last'.ok => lru' = lru
             /\ lru_last'.ok =>
                  /\ ReplacerSize(lru') = ReplacerSize(lru) - 1
                  /\ lru'.history_[lru_last'.frame_id] = <<>>
        /\ (LruCallStep("Remove") /\ lru_last'.frame_id \in Candidates(lru)) =>
             /\ ~lru_last'.threw
             /\ ReplacerSize(lru') = ReplacerSize(lru) - 1
             /\ lru'.history_[lru_last'.frame_id] = <<>>
     ]_vars

\* An Evict that returned false on a replacer whose Size() a Remove had
\* brought back to 0, one frame still tracked and not evictable.
C20_Witness ==
  /\ lru_last.op = "Evict" /\ ~lru_last.ok
  /\ ReplacerSize(lru) = 0
  /\ lru.current_timestamp_ >= 2
  /\ \E f \in DOMAIN lru.history_ : lru.allocated_[f]
  /\ \E f \in DOMAIN lru.history_ : ~lru.allocated_[f] /\ lru.history_[f] = <<>>

\* The entries the maps of part_004 hold for frame f (none in part_005).
MapEntriesOf(r, f) ==
  IF lru_source = "part_004"
    THEN {e \in r.complete_histories_ \cup r.incomplete_histories_ : e[2] = f}
    ELSE {}

\* C21: Remove(f) of a tracked frame that is not evictable fails with an
\* invalid-argument error and leaves the replacer as it was; Remove(f) of an
\* evictable frame clears its history, makes it untracked and lowers Size()
\* by one; Remove(f) of an untracked frame changes nothing.
C21_Remove ==
  [][(LruCallStep("Remove") /\ lru_last'.frame_id \in DOMAIN lru.history_) =>
       LET f == lru_last'.frame_id IN
       IF ~lru.allocated_[f] THEN ~lru_last'.threw /\ lru' = lru
       ELSE IF ~lru.evictable_[f] THEN lru_last'.threw /\ lru' = lru
       ELSE /\ ~lru_last'.threw
            /\ lru'.history_[f] = <<>>
            /\ ~lru'.allocated_[f] /\ ~lru'.evictable_[f]
            /\ MapEntriesOf(lru', f) = {}
            /\ ReplacerSize(lru') = ReplacerSize(lru) - 1
            /\ \A g \in DOMAIN lru.history_ \ {f} :
                 /\ lru'.history_[g] = lru.history_[g]
                 /\ lru'.allocated_[g] = lru.allocated_[g]
                 /\ lru'.evictable_[g] = lru.evictable_[g]
                 /\ MapEntriesOf(lru', g) = MapEntriesOf(lru, g)]_vars

\* A Remove of a tracked frame that was not evictable: it threw, and the
\* frame is still tracked with its history.
C21_Witness ==
  /\ lru_last.op = "Remove" /\ lru_last.threw
  /\ lru.allocated_[lru_last.frame_id]
  /\ lru.history_[lru_last.frame_id] # <<>>
  /\ ReplacerSize(lru) > 0

\* C22: RecordAccess and SetEvictable of a frame id outside 0..num_frames-1,
\* negative or >= num_frames, fail with an invalid-argument error and leave
\* the replacer, its timestamp included, as it was.
C22_InvalidFrameIdThrows ==
  [][((LruCallStep("RecordAccess") \/ LruCallStep("SetEvictable"))
      /\ lru_last'.frame_id \notin DOMAIN lru.history_) =>
       /\ lru_last'.threw
       /\ ~lru_last'.undefined
       /\ lru' = lru]_vars

\* ------------------------------------------------------------------------
\* The extendible hash table
\* ------------------------------------------------------------------------
\* The buckets some slot of the directory refers to.
DistinctBuckets(t) == {t.dir_[i] : i \in 1..Len(t.dir_)}

\* The entries the table holds for key: bucket and position in its list.
Entries(t, key) ==
  {e \in DistinctBuckets(t) \X (1..t.bucket_size_) : e[2] \in Positions(t.buckets[e[1]], key)}

\* What Find(key) should return after the calls made so far.
ExpectedFind(key) == [found |-> ht_kv[key] # 0, value |-> ht_kv[key]]

\* A call that does not return is an Insert of a key that is present into
\* a table whose buckets hold one entry.
DivergesOnlyOnUpsertOfFullBucket ==
  ht_last.diverged =>
    /\ ht_last.op = "Insert" /\ ht_last.present /\ ht_last.full
    /\ ht.bucket_size_ = 1

\* C23 as far as the calls return: Find and Remove agree with the history.
FindAgreesWhenCallsReturn ==
  ~ht_last.diverged =>
    /\ \A key \in HashKeys : ExtendibleFind(ht, key) = ExpectedFind(key)
    /\ ht_last.op = "Remove" => ht_last.ok = ht_last.present

\* C23: after any sequence of Insert and Remove calls, splits and directory
\* doublings included, every call has returned, Find(k) returns the value
\* of the most recent Insert(k, v) not followed by Remove(k) and fails for
\* every other key, and Remove(k) returned true exactly when k was present.
C23_FindAfterInsertsAndRemoves ==
  /\ ~ht_last.diverged
  /\ \A key \in HashKeys : ExtendibleFind(ht, key) = ExpectedFind(key)
  /\ ht_last.op = "Remove" => ht_last.ok = ht_last.present

\* C24: Insert(k, v2) when k is present returns, Find(k) then returns v2,
\* and the table holds one entry for k, whether or not the bucket that held
\* k was full; no key ever has more than one entry.
C24_InsertIsUpsert ==
  /\ \A key \in HashKeys : Cardinality(Entries(ht, key)) <= 1
  /\ (ht_last.op = "Insert" /\ ht_last.present) =>
       /\ ~ht_last.diverged
       /\ ExtendibleFind(ht, ht_last.key) = [found |-> TRUE, value |-> ht_last.value]
       /\ Cardinality(Entries(ht, ht_last.key)) = 1

\* C25: the directory has 2^global_depth slots; every bucket's local depth
\* is at most the global depth; the slots that agree with a slot on the low
\* local_depth bits refer to the same bucket; no bucket holds more than
\* bucket_size entries; every stored key is in the bucket of its IndexOf
\* slot; GetNumBuckets() is the number of distinct buckets.
C25_DirectoryInvariants ==
  /\ Len(ht.dir_) = Pow2(GetGlobalDepth(ht))
  /\ \A i \in 0..(Len(ht.dir_) - 1) :
       LET b == ht.dir_[i + 1]
           mask == Pow2(GetLocalDepth(ht, i))
       IN /\ GetLocalDepth(ht, i) <= GetGlobalDepth(ht)
          /\ \A j \in 0..(Len(ht.dir_) - 1) : (j % mask = i % mask) => ht.dir_[j + 1] = b
          /\ Len(ht.buckets[b].list_) <= ht.bucket_size_
          /\ \A e \in 1..Len(ht.buckets[b].list_) :
               ht.dir_[IndexOf(ht, ht.buckets[b].list_[e][1]) + 1] = b
  /\ GetNumBuckets(ht) = Cardinality(DistinctBuckets(ht))

\* An Insert has split a bucket that had at least four slots of a directory
\* of at least 8 slots, and some bucket is still shared by several slots.
C25_Witness ==
  /\ ht_last.op = "Insert" /\ ht_last.ok
  /\ GetNumBuckets(ht) > GetNumBuckets(ht_last.before)
  /\ GetGlobalDepth(ht_last.before) >= 3
  /\ GetLocalDepth(ht_last.before, IndexOf(ht_last.before, ht_last.key)) + 2
       <= GetGlobalDepth(ht_last.before)
  /\ \E i \in 0..(Len(ht.dir_) - 1) : GetLocalDepth(ht, i) < GetGlobalDepth(ht)

\* C26: after any sequence of Inserts and Removes every page of the tree
\* has as parent_page_id the page id of the internal page that holds the
\* pointer to it, and the root has INVALID_PAGE_ID, children moved by an
\* internal split, borrow or merge included.  A slot that still refers to
\* a deleted page is not counted as a pointer to a page of the tree.
C26_ParentPointers ==
  /\ root_page_id_ # INVALID_PAGE_ID =>
       pages[root_page_id_].parent_page_id_ = INVALID_PAGE_ID
  /\ \A n \in TreeNodes :
       n.kind = "INTERNAL_PAGE" =>
         \A i \in 1..Len(pages[n.id].array_) :
           \/ Invalid(pages[pages[n.id].array_[i].second])
           \/ pages[pages[n.id].array_[i].second].parent_page_id_ = n.id

\* The leaf the descent of InsertInternal reaches for key.
RECURSIVE LeafOf(_, _, _, _)
LeafOf(pg, page_id, key, fuel) ==
  IF pg[page_id].page_type # "INTERNAL_PAGE" \/ fuel = 0 THEN page_id
  ELSE LeafOf(pg, pg[page_id].array_[LowerBoundInternal(pg[page_id].array_, key)].second,
              key, fuel - 1)

\* The slots of the internal pages of the tree that point to a leaf.
LeafPointers(pg, root) ==
  IF root = INVALID_PAGE_ID THEN {}
  ELSE {s \in {n.id : n \in Nodes(pg, root, 0, MaxPages)} \X (1..(MaxPages + 4)) :
          /\ pg[s[1]].page_type = "INTERNAL_PAGE"
          /\ s[2] <= Len(pg[s[1]].array_)
          /\ pg[pg[s[1]].array_[s[2]].second].page_type = "LEAF_PAGE"}

\* C27: an Insert that brings a leaf to max_size entries splits it once:
\* the leaf keeps its first min_size entries, one new leaf receives the
\* others, the parent gains one entry (the sibling's first key with the
\* sibling's page id), and a new internal root is created first when the
\* leaf was the root; an Insert that leaves the leaf below max_size creates
\* no page.
C27_LeafSplit ==
  [][( /\ last'.op = "Insert" /\ nops' = nops + 1 /\ last'.ret
       /\ root_page_id_ # INVALID_PAGE_ID )
     => LET leaf == LeafOf(pages, root_page_id_, last'.key, MaxPages)
            full == InsertIntoLeaf(pages[leaf].array_, last'.key, last'.value).arr
            min == GetMinSize(pages[leaf])
            was_root == leaf = root_page_id_
            sibling == IF was_root THEN tree_next_page_id_ + 1 ELSE tree_next_page_id_
        IN IF Len(full) < leaf_max_size_
           THEN /\ tree_next_page_id_' = tree_next_page_id_
                /\ pages' = [pages EXCEPT ![leaf].array_ = full]
           ELSE IF Len(full) > leaf_max_size_ THEN TRUE
           ELSE /\ pages'[leaf].array_ = SubSeq(full, 1, min)
                /\ pages'[sibling].array_ = SubSeq(full, min + 1, Len(full))
                /\ {p \in PageSlots : IsLeafPage(pages'[p]) /\ ~IsLeafPage(pages[p])} = {sibling}
                /\ LET parent == pages'[sibling].parent_page_id_
                   IN /\ pages'[parent].page_type = "INTERNAL_PAGE"
                      /\ \E i \in 1..Len(pages'[parent].array_) :
                           pages'[parent].array_[i] = Pair(full[min + 1].first, sibling)
                /\ IF was_root
                   THEN /\ root_page_id_' = tree_next_page_id_
                        /\ pages'[root_page_id_'].array_ =
                             <<Pair(0, leaf), Pair(full[min + 1].first, sibling)>>
                   ELSE Cardinality(LeafPointers(pages', root_page_id_')) =
                          Cardinality(LeafPointers(pages, root_page_id_)) + 1
    ]_vars

\* C27 witness: the last Insert has split a leaf that was not the root, its
\* key is in the new leaf, and the parent of that leaf has three entries.
C27_Witness ==
  /\ last.op = "Insert" /\ last.ret
  /\ root_page_id_ # INVALID_PAGE_ID
  /\ pages[root_page_id_].page_type = "INTERNAL_PAGE"
  /\ LET leaf == LeafOf(pages, root_page_id_, last.key, MaxPages)
     IN /\ leaf = tree_next_page_id_ - 1
        /\ GetSize(pages[pages[leaf].parent_page_id_]) = 3

\* Remove(key) finds key in a leaf that is not the root and underflows, no
\* sibling of the leaf has more than min_size entries and the parent has
\* another child: the leaf is merged with a sibling (lines 303-405).  The
\* record names the two leaves and their parent.
MergeOf(key) ==
  LET leaf == LeafOf(pages, root_page_id_, key, MaxPages)
      parent == pages[leaf].parent_page_id_
      arr == pages[parent].array_
      index == IndexInParent(arr, leaf)
      lends(i) == /\ i >= 1 /\ i <= Len(arr)
                  /\ IsLeafPage(pages[arr[i].second])
                  /\ GetSize(pages[arr[i].second]) > GetMinSize(pages[arr[i].second])
      cur_is_left == index < Len(arr)
  IN IF /\ root_page_id_ # INVALID_PAGE_ID
        /\ IsLeafPage(pages[leaf]) /\ leaf # root_page_id_
        /\ RemoveFromLeaf(pages[leaf].array_, key).ok
        /\ GetSize(pages[leaf]) - 1 < GetMinSize(pages[leaf])
        /\ parent \in PageSlots /\ pages[parent].page_type = "INTERNAL_PAGE"
        /\ arr[index].second = leaf
        /\ Len(arr) > 1
        /\ ~lends(index - 1) /\ ~lends(index + 1)
        /\ \A i \in 1..Len(arr) : IsLeafPage(pages[arr[i].second])
     THEN [merges |-> TRUE, parent |-> parent,
           left |-> IF cur_is_left THEN leaf ELSE arr[index - 1].second,
           right |-> IF cur_is_left THEN arr[index + 1].second ELSE leaf]
     ELSE [merges |-> FALSE, parent |-> 0, left |-> 0, right |-> 0]

\* C28: when an underflowed page that is not the root cannot borrow, it is
\* merged with an adjacent sibling: the entries of both pages end up in the
\* left page, the parent loses the entry of the right page (its size
\* decreases by one and no slot refers to the right page any more), the
\* left leaf's next becomes the right leaf's next, and the right page is
\* deleted.  Stated for the merge of two leaves whose parent is the root.
C28_Merge ==
  [][( /\ last'.op = "Remove" /\ nops' = nops + 1 /\ ~ub
       /\ MergeOf(last'.key).merges
       /\ MergeOf(last'.key).parent = root_page_id_ )
     => LET m == MergeOf(last'.key)
            kept == {e \in {pages[m.left].array_[i] : i \in 1..Len(pages[m.left].array_)} \cup
                            {pages[m.right].array_[i] : i \in 1..Len(pages[m.right].array_)} :
                       e.first # last'.key}
        IN /\ {pages'[m.left].array_[i] : i \in 1..Len(pages'[m.left].array_)} = kept
           /\ Len(pages'[m.left].array_) = Cardinality(kept)
           /\ Len(pages'[m.parent].array_) = Len(pages[m.parent].array_) - 1
           /\ \A i \in 1..Len(pages'[m.parent].array_) :
                pages'[m.parent].array_[i].second # m.right
           /\ pages'[m.left].next_page_id_ = pages[m.right].next_page_id_
           /\ Invalid(pages'[m.right])
    ]_vars

\* Remove(key) finds key in a leaf that is not the root and underflows, and
\* a sibling has more than min_size entries: the leaf borrows from the left
\* sibling if that one can lend, else from the right one (lines 303-380).
BorrowOf(key) ==
  LET leaf == LeafOf(pages, root_page_id_, key, MaxPages)
      parent == pages[leaf].parent_page_id_
      arr == pages[parent].array_
      index == IndexInParent(arr, leaf)
      lends(i) == /\ i >= 1 /\ i <= Len(arr)
                  /\ IsLeafPage(pages[arr[i].second])
                  /\ GetSize(pages[arr[i].second]) > GetMinSize(pages[arr[i].second])
  IN IF /\ root_page_id_ # INVALID_PAGE_ID
        /\ IsLeafPage(pages[leaf]) /\ leaf # root_page_id_
        /\ RemoveFromLeaf(pages[leaf].array_, key).ok
        /\ GetSize(pages[leaf]) - 1 < GetMinSize(pages[leaf])
        /\ parent \in PageSlots /\ pages[parent].page_type = "INTERNAL_PAGE"
        /\ arr[index].second = leaf
        /\ (lends(index - 1) \/ lends(index + 1))
     THEN [from |-> IF lends(index - 1) THEN "left" ELSE "right", leaf |-> leaf,
           parent |-> parent, index |-> index,
           sibling |-> IF lends(index - 1) THEN arr[index - 1].second
                       ELSE arr[index + 1].second]
     ELSE [from |-> "none", leaf |-> 0, parent |-> 0, index |-> 0, sibling |-> 0]

\* The keys of the leaves of the tree.
TreeKeys(pg, root) ==
  IF root = INVALID_PAGE_ID THEN {}
  ELSE UNION {{pg[n.id].array_[i].first : i \in 1..Len(pg[n.id].array_)} :
                n \in {m \in Nodes(pg, root, 0, MaxPages) : m.kind = "LEAF_PAGE"}}

KeysOf(page) == {page.array_[i].first : i \in 1..Len(page.array_)}

\* C29: an underflowed page that is not the root and has a left sibling
\* with more than min_size entries receives the last entry of that sibling
\* at its front (else the first entry of such a right sibling at its end),
\* the separator between the two pages in the parent is updated so that the
\* keys of each are >= its separator and < the next one, and the keys of
\* the tree change by the removed key only.  Stated for leaves.
C29_Borrow ==
  [][( /\ last'.op = "Remove" /\ nops' = nops + 1 /\ ~ub
       /\ BorrowOf(last'.key).from # "none" )
     => LET b == BorrowOf(last'.key)
            rest == RemoveFromLeaf(pages[b.leaf].array_, last'.key).arr
            sib == pages[b.sibling].array_
            sep(i) == pages'[b.parent].array_[i].first
        IN /\ TreeKeys(pages', root_page_id_') = TreeKeys(pages, root_page_id_) \ {last'.key}
           /\ b.from = "left" =>
                /\ pages'[b.leaf].array_ = <<sib[Len(sib)]>> \o rest
                /\ pages'[b.sibling].array_ = SubSeq(sib, 1, Len(sib) - 1)
                /\ \A k \in KeysOf(pages'[b.leaf]) : k >= sep(b.index)
                /\ \A k \in KeysOf(pages'[b.sibling]) : k < sep(b.index)
           /\ b.from = "right" =>
                /\ pages'[b.leaf].array_ = rest \o <<sib[1]>>
                /\ pages'[b.sibling].array_ = Tail(sib)
                /\ \A k \in KeysOf(pages'[b.sibling]) : k >= sep(b.index + 1)
                /\ \A k \in KeysOf(pages'[b.leaf]) : k < sep(b.index + 1)
    ]_vars

\* C30: when a merge leaves an internal root with a single child, that
\* child becomes the root with its parent_page_id cleared, root_page_id_
\* is updated to it and the old root page is deleted; after every Remove an
\* internal root has at least 2 entries.
C30_RootCollapse ==
  /\ [][( /\ last'.op = "Remove" /\ nops' = nops + 1 /\ ~ub
          /\ MergeOf(last'.key).merges
          /\ MergeOf(last'.key).parent = root_page_id_
          /\ GetSize(pages[root_page_id_]) = 2 )
        => LET m == MergeOf(last'.key)
           IN /\ root_page_id_' = m.left
              /\ pages'[m.left].parent_page_id_ = INVALID_PAGE_ID
              /\ Invalid(pages'[root_page_id_])
       ]_vars
  /\ []( ( /\ last.op = "Remove" /\ ~ub
           /\ root_page_id_ # INVALID_PAGE_ID
           /\ pages[root_page_id_].page_type = "INTERNAL_PAGE" )
         => GetSize(pages[root_page_id_]) >= 2 )

\* C31: Remove(k) for a key that no leaf of the tree holds changes no page
\* of the tree (entries, sizes, next_page_id, parent_page_id), borrows and
\* merges nothing, and leaves root_page_id_ as it was.
C31_RemoveOfMissingKey ==
  [][( /\ last'.op = "Remove" /\ nops' = nops + 1 /\ ~ub
       /\ last'.key \notin TreeKeys(pages, root_page_id_) )
     => ( /\ pages' = pages
          /\ root_page_id_' = root_page_id_
          /\ tree_next_page_id_' = tree_next_page_id_
          /\ ~ub' )
    ]_vars

\* C32: under any interleaving of buffer pool calls of several threads, a
\* FetchPage(p) that misses and reads p from disk returns the bytes p had
\* when it was last unpinned with dirty = true (every write since reported
\* that way): it never reads the disk while the write-back of p from a frame
\* another thread is reusing is still pending.
C32_FetchNeverStale ==
  [][\A t \in PoolThreads :
       ( /\ pool_io[t].op = "FetchPage"
         /\ pool_io'[t].op = "none"
         /\ ~page_hist[pool_io[t].page_id].unreported )
       => pages_'[pool_io[t].frame_id].data_ = page_hist[pool_io[t].page_id].committed
    ]_vars

\* C33: creating, dereferencing, advancing and destroying an index iterator
\* leaves the pin count of every page as it was; in particular destroying
\* an iterator never lowers the pin count of a page another caller has
\* pinned.
C33_IteratorKeepsPins ==
  [][(iter' # iter) => pin' = pin]_vars

\* Begin(), operator* and operator++ leave every pin count as it was.
IteratorUseKeepsPins ==
  [][(iter' # iter /\ iter'.op # "~IndexIterator") => pin' = pin]_vars

\* ~IndexIterator leaves every pin count as it was when no other caller has
\* pinned the iterator's page.
DestroyKeepsPinsOfUnpinnedPage ==
  [][(iter' # iter /\ iter'.op = "~IndexIterator"
      /\ (iter.page_id_ # INVALID_PAGE_ID => pin[iter.page_id_] = 0)) => pin' = pin]_vars

\* C34: every completed Insert and Remove (and GetValue and Begin, which
\* fetch and unpin one page at a time) leaves the pin count of every page
\* equal to its value before the call: every page fetched or created during
\* the call is unpinned exactly once, on every path.
C34_NoPinLeak ==
  [][(nops' = nops + 1 /\ ~ub') => pin' = pin]_vars

\* Inserts alone leave the pin count of every page as it was.
InsertKeepsPins ==
  [][(nops' = nops + 1 /\ last'.op = "Insert" /\ ~ub') => pin' = pin]_vars

\* C35: every Insert of the hash table returns after finitely many bucket
\* splits, for every key and every reachable table, also when the key is
\* already present in a bucket that is full.
C35_InsertTerminates ==
  ht_last.op = "Insert" => ~ht_last.diverged

\* C36: for any interleaving of Insert, Find and Remove calls of several
\* threads the outcome is that of the calls in the order in which they took
\* effect: every Find returns what that order gives (an Insert that
\* completed is not lost, a present key is not missed while another thread
\* is between the two attempts of its Insert or has split a bucket), and no
\* key is stored twice.
C36_SerialOutcome ==
  ~ht_last.diverged =>
    /\ \A key \in HashKeys :
         /\ ExtendibleFind(ht, key) = ExpectedFind(key)
         /\ Cardinality(Entries(ht, key)) <= 1
    /\ ht_last.op = "Find" =>
         /\ ht_last.ok = ht_last.present
         /\ ht_last.ok => ht_last.value = ht_kv[ht_last.key]
    /\ ht_last.op = "Insert" =>
         ExtendibleFind(ht, ht_last.key) = [found |-> TRUE, value |-> ht_last.value]

\* C36 witness: an Insert found its bucket full under the shared latch,
\* another thread's call took effect before the retry, and the retry split
\* the bucket and doubled the directory.
C36_Witness ==
  /\ ht_last.op = "Insert" /\ ht_last.ok /\ ~ht_last.diverged
  /\ ht_last.full
  /\ ht.global_depth_ > ht_last.before.global_depth_
  /\ \E key \in HashKeys \ {ht_last.key} : ht_kv[key] # 0
  /\ \E th \in PoolThreads : ht_io[th].op = "Insert"

Waiting(t) ==
  \/ pc[t] \in {"ins_lock_global", "rem_lock_global"} /\ ~CanLock(global_latch_)
  \/ pc[t] = "gv_lock_global" /\ ~CanLockShared(global_latch_)
  \/ pc[t] = "ins_split" /\ InsertUnwind(T, path[t], TRUE).nxt > SetMax(PageSlots) + 1

\* Thread t is in a call and its next step can be taken.
Running(t) == ~ub /\ pc[t] # "idle" /\ ~Waiting(t)

\* The threads on a tree with the smallest page sizes, under fair
\* scheduling: a thread whose next step stays possible takes it.  Every
\* step of a call moves its thread to another label, so this is
\* WF_pc(Running(t) /\ pc'[t] # pc[t]) with its enabling condition, the
\* state predicate Running(t), written out.
InitFair ==
  /\ InitTree
  /\ leaf_max_size_ = SetMin(LeafMaxSizes)
  /\ internal_max_size_ = SetMin(InternalMaxSizes)

SpecConcurrentFair ==
  /\ InitFair
  /\ [][NextConcurrent]_vars
  /\ \A t \in Threads : []<>(~Running(t)) \/ []<><<pc'[t] # pc[t]>>_pc

InCall == {t \in Threads : pc[t] # "idle"}

\* Some thread that is in a call can take its next step, and the latches
\* are free when no call is in progress.
LatchesNeverDeadlock ==
  ~ub =>
    /\ InCall # {} => \E t \in InCall : ~Waiting(t)
    /\ InCall = {} => (root_page_id_guard_ = Unlocked /\ global_latch_ = Unlocked)

\* A thread that leaves a label was not waiting there.
WaitingIsDisabled ==
  [][\A t \in Threads : (pc'[t] # pc[t] /\ pc[t] # "idle") => ~Waiting(t)]_vars

NullNewPage ==
  /\ pool_nops' = pool_nops + 1
  /\ pool_last'.op = "NewPage"
  /\ pool_last'.null

\* C39: a NewPage call that returns null leaves the free list, the
\* directory, the replacer, every frame's metadata and the next page id to
\* be allocated as they were before the call.
C39_NullNewPageChangesNothing ==
  [][NullNewPage =>
       /\ free_list_' = free_list_
       /\ page_table_' = page_table_
       /\ replacer_' = replacer_
       /\ pages_' = pages_
       /\ next_page_id_' = next_page_id_
    ]_vars

\* What the null return does keep in either source: everything but the next
\* page id; part_006 keeps that too.
NullNewPageKeepsFrames ==
  [][NullNewPage =>
       /\ free_list_' = free_list_
       /\ page_table_' = page_table_
       /\ replacer_' = replacer_
       /\ pages_' = pages_
       /\ disk' = disk
       /\ pool_source = "part_006" => next_page_id_' = next_page_id_
       /\ pool_source # "part_006" => next_page_id_' = next_page_id_ + 1
    ]_vars

\* ------------------------------------------------------------------------
\* The leaf page on its own (part_001): one page, filled by its Insert, and
\* the two ways an entry is taken out of it, BPlusTreeLeafPage::Remove and
\* the tree's RemoveFromLeaf
\* ------------------------------------------------------------------------
\* BPlusTreeLeafPage::Insert, lines 59-76.
LeafInsert(arr, key, value) ==
  LET S == {i \in 1..Len(arr) : key <= arr[i].first}
      index == IF S = {} THEN Len(arr) + 1 ELSE SetMin(S)
  IN IF index <= Len(arr) /\ arr[index].first = key
       THEN [ok |-> FALSE, arr |-> arr]
       ELSE [ok |-> TRUE, arr |-> InsertAt(arr, index, Pair(key, value))]

\* BPlusTreeLeafPage::LowerBound, lines 79-88: the last slot whose key is not
\* above key; 0 stands for -1.
LeafLowerBound(arr, key) ==
  LET S == {i \in 1..Len(arr) : key >= arr[i].first}
  IN IF S = {} THEN 0 ELSE SetMax(S)

\* BPlusTreeLeafPage::Remove, lines 91-102.
LeafRemove(arr, key) ==
  LET index == LeafLowerBound(arr, key)
  IN IF index = 0 THEN [ok |-> FALSE, arr |-> arr]
     ELSE [ok |-> TRUE, arr |-> RemoveAt(arr, index)]

LeafPageId == 1
LeafArray == pages[LeafPageId].array_

LeafStep(op, key, value, r) ==
  /\ nops < MaxOps
  /\ pages' = [pages EXCEPT ![LeafPageId].array_ = r.arr]
  /\ last' = [op |-> op, key |-> key, value |-> value, ret |-> r.ok,
              present |-> \E i \in 1..Len(LeafArray) : LeafArray[i].first = key]
  /\ nops' = nops + 1
  /\ UNCHANGED <<root_page_id_, tree_next_page_id_, pin, ub, leaf_max_size_,
                 internal_max_size_, kv, threadVars>>
  /\ UNCHANGED <<poolVars, replacerVars, hashVars, callVars>>

\* The callers of Insert keep the page within max_size.
LeafPageInsert(key, value) ==
  /\ Len(LeafArray) < pages[LeafPageId].max_size_
  /\ LeafStep("LeafPage::Insert", key, value, LeafInsert(LeafArray, key, value))

LeafPageRemove(key) ==
  /\ IsLeafPage(pages[LeafPageId])
  /\ LeafStep("LeafPage::Remove", key, 0, LeafRemove(LeafArray, key))

TreeRemoveFromLeaf(key) ==
  /\ IsLeafPage(pages[LeafPageId])
  /\ LeafStep("RemoveFromLeaf", key, 0, RemoveFromLeaf(LeafArray, key))

NextLeafPage ==
  \/ \E key \in Keys, value \in Values : LeafPageInsert(key, value)
  \/ \E key \in Keys : LeafPageRemove(key)
  \/ \E key \in Keys : TreeRemoveFromLeaf(key)

\* The page after Init(page_id, INVALID_PAGE_ID, max_size), pinned in its
\* frame; no tree is built.
InitLeafPage ==
  /\ leaf_max_size_ \in LeafMaxSizes
  /\ pages = [p \in PageSlots |->
                IF p = LeafPageId
                  THEN LeafInit(LeafPageId, INVALID_PAGE_ID, leaf_max_size_)
                  ELSE ZeroPage]
  /\ root_page_id_ = INVALID_PAGE_ID
  /\ tree_next_page_id_ = LeafPageId + 1
  /\ pin = [p \in PageSlots |-> IF p = LeafPageId THEN 1 ELSE 0]
  /\ ub = FALSE
  /\ internal_max_size_ = SetMin(InternalMaxSizes)
  /\ kv = [k \in Keys |-> 0]
  /\ last = NoCall
  /\ nops = 0
  /\ InitThreads
  /\ InitPool("part_006", SetMax(PoolSizes), SetMax(ReplacerKs))
  /\ InitReplacer("part_005", 1, 1)
  /\ InitHashTable("global_latch_", 1)
  /\ InitCalls

SpecLeafPage == InitLeafPage /\ [][NextLeafPage]_vars

\* What a removal of last'.key from the leaf has to do: with the key in the
\* leaf, return true and leave the other entries, in their order; without
\* it, return false and leave the leaf as it was.
ExactRemoval ==
  LET key == last'.key
      S == {i \in 1..Len(LeafArray) : LeafArray[i].first = key}
      after == pages'[LeafPageId].array_
  IN
  /\ S # {} => /\ last'.ret
               /\ Len(after) = Len(LeafArray) - 1
               /\ after = RemoveAt(LeafArray, SetMin(S))
  /\ S = {} => /\ ~last'.ret
               /\ after = LeafArray

\* The leaf keeps its keys in strictly ascending order.
LeafSorted ==
  \A i \in 1..(Len(LeafArray) - 1) : LeafArray[i].first < LeafArray[i + 1].first

\* C40: Remove(key) on a leaf page removes an entry only when the leaf holds
\* an entry with exactly that key -- size then decreases by one and the
\* remaining entries keep their order; for a key that is not in the leaf it
\* returns false and leaves the leaf unchanged.
C40_LeafRemoveIsExact ==
  [][(nops' = nops + 1 /\ last'.op \in {"LeafPage::Remove", "RemoveFromLeaf"})
       => ExactRemoval]_vars

\* The tree's RemoveFromLeaf removes exactly the key; the page's own Remove
\* does when the key is in the leaf or below every key of the leaf.
RemoveFromLeafIsExact ==
  [][(nops' = nops + 1 /\ last'.op = "RemoveFromLeaf") => ExactRemoval]_vars

LeafRemoveOfHeldKeyIsExact ==
  [][(/\ nops' = nops + 1
      /\ last'.op = "LeafPage::Remove"
      /\ \/ last'.present
         \/ \A i \in 1..Len(LeafArray) : last'.key < LeafArray[i].first)
       => ExactRemoval]_vars

====
